---------------------------- MODULE Spec2Model ----------------------------
(***************************************************************************)
(* Model of the execution and governance fabric of digital-employee-swarm: *)
(*   - harness/task_queue.py   TaskQueue (SQLite-backed priority queue)    *)
(*   - harness/hitl_manager.py HITLManager (approval requests)             *)
(*   - harness/core.py         EnterpriseHarness.run_epcc_cycle            *)
(*   - orchestrator/router.py  MasterOrchestrator._dispatch_single         *)
(* Every SQL statement is one atomic step; a handler that issues several   *)
(* statements outside a transaction is several steps.                      *)
(***************************************************************************)
EXTENDS Integers, Sequences, FiniteSets, TLC

\* ------------------------------------------------------------------ bounds
MaxTasks == 2
MaxRaises == 4
MaxRequests == 2
MaxRuns == 2
MaxLines == 3
MaxSaves == 2
MaxAssess == 1
MaxSteps == 1
MaxNodes == 2
\* database errors and process crashes per behaviour
MaxFaults == 1
\* steps of a workflow definition, and step executions of one execute call
MaxWfSteps == 2
MaxExec == 4
\* max_iterations of a LOOP step
MaxIter == 3
\* steps of a parallel plan
MaxPlanSteps == 3
\* most clauses a task text splits into, and items an LLM answer lists
MaxParts == 6
\* number of distinct values uuid4().hex[:8] takes
NumPlanIds == 2
\* parts[:5] / data.get("sub_tasks", [])[:5]
MaxSubTasks == 5
\* most branches of a PARALLEL step
MaxBranches == 2
\* most runs of one agent in a day
MaxAgentRuns == 3
\* most sub-tasks of an executed plan
MaxExecSubTasks == 3
\* most calls of start() that create threads
MaxStarts == 2
\* most rows enqueued while the pool is watched
MaxPoolTasks == 3

\* ------------------------------------------------------- program constants
NumWorkers == 2
DefaultMaxRetries == 3
TIMEOUT_HOURS == 24

P_CRITICAL == 0
P_HIGH == 1
P_NORMAL == 2
P_LOW == 3

NoTime == 0
\* a non-null ISO timestamp written by a worker; the queue never reads it back
Stamp == 1
NoTask == 0
NoRequest == 0
NoResult == "null"
NoUrl == "null"
NoStep == 0
NoIter == -1
\* the score a LOOP round needs, in hundredths
ScoreThreshold == 75
\* record_task: `if score >= 0.5`, in hundredths
SuccessThreshold == 50
\* _MAX_PREV_RESULT_LENGTH
MAX_PREV_RESULT_LENGTH == 200
\* the confidence an LLM answer needs, in hundredths
ConfidenceThreshold == 80

VARIABLES
    tasks,      \* the tasks table: row i is the i-th inserted task (task_id = i)
    running,    \* TaskQueue._running
    lock,       \* TaskQueue._lock: the worker holding it, 0 when free
    pc,         \* each worker thread's position in _worker_loop
    cur,        \* the task a worker's local QueuedTask refers to
    lrc,        \* retry_count of a worker's local QueuedTask
    now,        \* datetime.utcnow()
    invoked,    \* history: how often the executor was invoked per task
    raises,     \* how often the executor has raised so far (bounded by MaxRaises)
    cancelRet,  \* history: the last cancel call, its argument and return value
    cancelOk,   \* history: tasks for which cancel returned True
    slept,      \* history: the backoff delays slept for each task, in seconds
    hooks,      \* the webhook payloads _send_webhook started a POST thread for
    posting,    \* the tasks whose POST thread has not finished yet
    faults,     \* how many database errors and crashes have happened so far
    stopping,   \* the last stop call: "none", "joining" while it waits in its joins,
                \* then how it returned: "joined", "timeout", or "nowait" (not graceful)
    stopExec,   \* history: the tasks whose executor was running when stop was called
    late        \* history: per worker, the tasks it claimed since stop was called

qvars == <<tasks, running, lock, pc, cur, lrc, now, invoked, raises, cancelRet,
           cancelOk, slept, hooks, posting, faults,
           stopping, stopExec, late>>

VARIABLES
    requests,   \* the approval_requests table: row i has request_id = i
    requireMed, \* HITLManager.REQUIRE_APPROVAL_FOR_MED
    hnow,       \* datetime.utcnow(), in hours
    epc,        \* position of the expire_timeouts call in flight
    eNow,       \* expire_timeouts: its local `now`
    eExpired,   \* expire_timeouts: its local `expired`
    gateArg,    \* history: the risk_level the last check_and_gate was called with
    gateSent,   \* history: what the notifier's POST did in the last check_and_gate
    hcall       \* history: the last resolve, is_approved or get_pending_requests
                \* call a client made, with its arguments and what it returned

hvars == <<requests, requireMed, hnow, epc, eNow, eExpired, gateArg, gateSent,
           hcall>>

VARIABLES
    runs,       \* the run_epcc_cycle invocations, finished and in flight
    esec        \* int(time.time()): the clock run_epcc_cycle reads, in seconds

evars == <<runs, esec>>

VARIABLES
    logFile,    \* GitMemory: the lines of docs/progress.log
    progressMd  \* GitMemory: the entry lines of PROGRESS.md (<<>>: no file yet)

mvars == <<logFile, progressMd>>

VARIABLES
    sessions,   \* SessionStore: the sessions table, row i has id = i
    lastSaved   \* history: the record of the last save_session call per pair

svars == <<sessions, lastSaved>>

VARIABLES
    assessmentLog  \* SemanticRiskAssessor.assessment_log, with the inputs

rvars == <<assessmentLog>>

VARIABLES
    stepResults    \* WorkflowEngine: the StepResults of CONDITION steps, with
                   \* the condition and what evaluating it did

wvars == <<stepResults>>

VARIABLES
    wfState,    \* WorkflowEngine.execute: "none", "running", or "done" (returned)
    wf,         \* the registered WorkflowDefinition: step k has step_id = k
    stepQueue,  \* execute: step_queue, as step ids
    wi,         \* execute: the index i into step_queue (counted from 1)
    wfResults,  \* execute: step_results
    wfSuccess   \* the success of the WorkflowResult returned

xvars == <<wfState, wf, stepQueue, wi, wfResults, wfSuccess>>

VARIABLES
    loopState,  \* _execute_loop_step: "none", "running", or "done" (returned)
    loopStep,   \* the LOOP step: whether it has a condition, and max_iterations
    loopIter,   \* the rounds of the for loop entered so far
    loopCalls,  \* history: how often _call_agent was invoked
    loopBroke,  \* whether the loop was left by `break`
    lastResult, \* last_result.success
    ctxIter,    \* context["iteration"], NoIter while the key is not set
    ctxScore    \* context["eval_score"] in hundredths, NoIter while not set

lvars == <<loopState, loopStep, loopIter, loopCalls, loopBroke, lastResult, ctxIter,
           ctxScore>>

VARIABLES
    dState,     \* _dispatch_parallel: "none", "running", or "done" (returned)
    dPlan,      \* plan.steps: step k is the agent_name of the k-th step (its
                \* task, and the result of running it, are identified by k)
    dDone,      \* the steps whose future has completed and been collected
    resultsMap, \* results_map: per agent name the step whose result is stored
    stepRuns,   \* history: how often each step's agent.run was invoked
    aggregated  \* the blocks of the aggregated output, in order

dvars == <<dState, dPlan, dDone, resultsMap, stepRuns, aggregated>>

VARIABLES
    pState,     \* TaskPlanner.plan: "idle", "llm" (inside _llm_based_plan),
                \* "rules" (inside _rule_based_plan) or "returned"
    pTask,      \* the task text of the call in progress
    pVia,       \* history: which planner produced the returned plan
    planResult  \* the PlanResult returned by the last call

pvars == <<pState, pTask, pVia, planResult>>

VARIABLES
    parState,   \* a PARALLEL step: "none", "running", "returned" (the step's
                \* result is in the workflow context) or "merged"
    parSteps,   \* step.parallel_steps
    ctxs,       \* the context dicts: 0 is the workflow's ctx, k the dict
                \* handed to branch k
    ctxAtCall,  \* history: the workflow's ctx when the step was entered
    ctxSeen,    \* history: the context each branch found when it ran
    branchRuns, \* history: how often each branch was executed
    subResults, \* sub_results, in order of completion
    parResult,  \* the StepResult of the PARALLEL step
    mergeOutput \* the output of the MERGE step that follows

kvars == <<parState, parSteps, ctxs, ctxAtCall, ctxSeen, branchRuns, subResults,
           parResult, mergeOutput>>

VARIABLES
    profileRow,  \* agent_profiles.total_tasks_completed of the agent
    perfHistory, \* the agent's performance_history rows, in insertion order
    apc,         \* where each thread is inside BaseAgent.run
    runResult,   \* the eval_score and duration of each thread's current run
    local,       \* the AgentProfile object each thread loaded
    dayRuns      \* history: the runs completed today, in order of completion

avars == <<profileRow, perfHistory, apc, runResult, local, dayRuns>>

VARIABLES
    exState,     \* TaskPlanner.execute: "none", "running" or "done"
    exPlan,      \* plan.sub_tasks of the sequential plan being executed
    executors,   \* the agents that have an entry in agent_executors
    exIdx,       \* position of the `for st in plan.sub_tasks` loop
    stStatus,    \* status of each sub-task
    stResult,    \* result of each sub-task
    prevResult,  \* prev_result
    stContext,   \* history: the previous result put into each task_input
    invOrder,    \* history: the sub-tasks whose executor was called, in order
    planSuccess  \* plan.success

tvars == <<exState, exPlan, executors, exIdx, stStatus, stResult, prevResult,
           stContext, invOrder, planSuccess>>

VARIABLES
    poolRunning, \* self._running, as seen by every thread ever started
    poolJoin,    \* a caller is inside stop(graceful=True), joining
    poolStarts,  \* how often start() has created threads
    poolPc,      \* each thread ever created: "unborn", "loop" (at the while
                 \* test), "dequeue", "exec" (holding a RUNNING row) or "exited"
    poolPending, \* number of PENDING rows
    poolRows     \* number of RUNNING rows

gvars == <<poolRunning, poolJoin, poolStarts, poolPc, poolPending, poolRows>>

vars == <<qvars, hvars, evars, mvars, svars, rvars, wvars, xvars, lvars, dvars, pvars, kvars, avars, tvars, gvars>>

\* what the operations of one component leave alone
otherQ == <<hvars, evars, mvars, svars, rvars, wvars, xvars, lvars, dvars, pvars, kvars, avars, tvars, gvars>>
otherH == <<qvars, evars, mvars, svars, rvars, wvars, xvars, lvars, dvars, pvars, kvars, avars, tvars, gvars>>
otherE == <<qvars, hvars, svars, rvars, wvars, xvars, lvars, dvars, pvars, kvars, avars, tvars, gvars>>
otherM == <<qvars, hvars, evars, svars, rvars, wvars, xvars, lvars, dvars, pvars, kvars, avars, tvars, gvars>>
otherS == <<qvars, hvars, evars, mvars, rvars, wvars, xvars, lvars, dvars, pvars, kvars, avars, tvars, gvars>>
otherR == <<qvars, hvars, evars, mvars, svars, wvars, xvars, lvars, dvars, pvars, kvars, avars, tvars, gvars>>
otherW == <<qvars, hvars, evars, mvars, svars, rvars, xvars, lvars, dvars, pvars, kvars, avars, tvars, gvars>>
otherX == <<qvars, hvars, evars, mvars, svars, rvars, wvars, lvars, dvars, pvars, kvars, avars, tvars, gvars>>
otherL == <<qvars, hvars, evars, mvars, svars, rvars, wvars, xvars, dvars, pvars, kvars, avars, tvars, gvars>>
otherD == <<qvars, hvars, evars, mvars, svars, rvars, wvars, xvars, lvars, pvars, kvars, avars, tvars, gvars>>
otherP == <<qvars, hvars, evars, mvars, svars, rvars, wvars, xvars, lvars, dvars, kvars, avars, tvars, gvars>>
otherK == <<qvars, hvars, evars, mvars, svars, rvars, wvars, xvars, lvars, dvars, pvars, avars, tvars, gvars>>
otherA == <<qvars, hvars, evars, mvars, svars, rvars, wvars, xvars, lvars, dvars, pvars, kvars, tvars, gvars>>
otherT == <<qvars, hvars, evars, mvars, svars, rvars, wvars, xvars, lvars, dvars, pvars, kvars, avars, gvars>>
otherG == <<qvars, hvars, evars, mvars, svars, rvars, wvars, xvars, lvars, dvars, pvars, kvars, avars, tvars>>

Workers == 1..NumWorkers
TaskPriority == {P_CRITICAL, P_HIGH, P_NORMAL, P_LOW}
TaskIds == 1..MaxTasks
\* the priorities enqueue is called with
EnqueuePriorities == {P_CRITICAL, P_NORMAL}

\* ------------------------------------------------------------ TaskQueue
QueuedTask(p, t, url) ==
    [priority |-> p, status |-> "pending", created_at |-> t, callback_url |-> url,
     started_at |-> NoTime, completed_at |-> NoTime,
     result |-> NoResult, error |-> NoResult,
     retry_count |-> 0, max_retries |-> DefaultMaxRetries]

QInit ==
    /\ tasks = <<>>
    /\ running = FALSE
    /\ lock = 0
    /\ pc = [w \in Workers |-> "unborn"]
    /\ cur = [w \in Workers |-> NoTask]
    /\ lrc = [w \in Workers |-> 0]
    /\ now = 1
    /\ invoked = [t \in TaskIds |-> 0]
    /\ raises = 0
    /\ cancelRet = [id |-> NoTask, ret |-> FALSE]
    /\ cancelOk = {}
    /\ slept = [t \in TaskIds |-> <<>>]
    /\ hooks = [t \in TaskIds |-> <<>>]
    /\ posting = {}
    /\ faults = 0
    /\ stopping = "none"
    /\ stopExec = {}
    /\ late = [w \in Workers |-> 0]

\* enqueue: INSERT a PENDING row stamped with the current time; the clock may
\* or may not have advanced since the previous enqueue (time is counted from
\* the first enqueue)
Enqueue(p, url) ==
    /\ Len(tasks) < MaxTasks
    /\ \E t \in {now, now + 1} :
         /\ tasks = <<>> => t = now
         /\ now' = t
         /\ tasks' = Append(tasks, QueuedTask(p, t, url))
    /\ UNCHANGED <<running, lock, pc, cur, lrc, invoked, raises, cancelRet, cancelOk,
                 slept, hooks, posting, faults, stopping, stopExec, late>>
    /\ UNCHANGED otherQ

\* cancel: UPDATE tasks SET status=CANCELLED WHERE task_id=? AND status=PENDING
CancelGuard_AnyStatus(row) == row.status \in {"pending", "running"}

CancelGuard(row) == row.status = "pending"

CancelHit(t) == t \in DOMAIN tasks /\ CancelGuard(tasks[t])

CancelRows(t) ==
    /\ tasks' = IF CancelHit(t) THEN [tasks EXCEPT ![t].status = "cancelled"] ELSE tasks
    /\ cancelOk' = IF CancelHit(t) THEN cancelOk \cup {t} ELSE cancelOk
    /\ UNCHANGED <<running, lock, pc, cur, lrc, now, invoked, raises,
                 slept, hooks, posting, faults, stopping, stopExec, late>>
    /\ UNCHANGED otherQ

Cancel(t) == CancelRows(t) /\ UNCHANGED cancelRet

\* the same call with its argument and return value (rowcount > 0) recorded
CancelCall(t) == CancelRows(t) /\ cancelRet' = [id |-> t, ret |-> CancelHit(t)]

\* positions of a worker thread that does not exist (any more)
NoThread == {"unborn", "exited", "dead"}

\* start: spawn num_workers threads unless already running (the queue is
\* started again only once the threads of the previous start have ended and
\* no stop call is still waiting)
Start ==
    /\ ~running
    /\ stopping # "joining"
    /\ \A w \in Workers : pc[w] \in NoThread
    /\ running' = TRUE
    /\ pc' = [w \in Workers |-> "idle"]
    /\ late' = [w \in Workers |-> 0]
    /\ UNCHANGED <<tasks, lock, cur, lrc, now, invoked, raises, cancelRet, cancelOk,
                 slept, hooks, posting, faults, stopping, stopExec>>
    /\ UNCHANGED otherQ

\* ORDER BY priority ASC, created_at ASC
OrderBefore(a, b) ==
    \/ a.priority < b.priority
    \/ a.priority = b.priority /\ a.created_at < b.created_at

PendingIds == {i \in DOMAIN tasks : tasks[i].status = "pending"}

\* the rows LIMIT 1 may return: a PENDING row no other PENDING row sorts before
FirstPending ==
    {i \in PendingIds : \A j \in PendingIds : ~OrderBefore(tasks[j], tasks[i])}

\* _worker_loop: `while self._running` is read at the top of every round; the
\* thread ends when it is false, otherwise it goes on to _dequeue_next
LoopRuns_Always(flag) == TRUE

LoopRuns(flag) == flag

LoopCheck(w) ==
    /\ pc[w] = "idle"
    /\ pc' = [pc EXCEPT ![w] = IF LoopRuns(running) THEN "dequeue" ELSE "exited"]
    /\ UNCHANGED <<tasks, running, lock, cur, lrc, now, invoked, raises, cancelRet,
                   cancelOk, slept, hooks, posting, faults, stopping, stopExec, late>>
    /\ UNCHANGED otherQ

\* `with self._lock`: the lock is free
LockFree_Ignored(l) == TRUE

LockFree(l) == l = 0

\* _dequeue_next: enter `with self._lock`, then
\* SELECT ... WHERE status=PENDING ORDER BY ... LIMIT 1
SelectNext(w) ==
    /\ pc[w] = "dequeue"
    /\ LockFree(lock)
    /\ IF PendingIds = {}
       THEN /\ pc' = [pc EXCEPT ![w] = "idle"]
            /\ UNCHANGED <<lock, cur, lrc>>
       ELSE \E i \in FirstPending :
            /\ cur' = [cur EXCEPT ![w] = i]
            /\ lrc' = [lrc EXCEPT ![w] = tasks[i].retry_count]
            /\ pc' = [pc EXCEPT ![w] = "update"]
            /\ lock' = w
    /\ UNCHANGED <<tasks, running, now, invoked, raises, cancelRet, cancelOk,
                 slept, hooks, posting, faults, stopping, stopExec, late>>
    /\ UNCHANGED otherQ

\* _dequeue_next: UPDATE ... SET status=RUNNING, started_at=now
\*                WHERE task_id=? AND status=PENDING
ClaimGuard_AnyStatus(row) == TRUE

ClaimGuard(row) == row.status = "pending"

ClaimUpdate(w) ==
    /\ pc[w] = "update"
    /\ tasks' = IF ClaimGuard(tasks[cur[w]])
                THEN [tasks EXCEPT ![cur[w]].status = "running",
                                   ![cur[w]].started_at = Stamp]
                ELSE tasks
    /\ pc' = [pc EXCEPT ![w] = "verify"]
    /\ late' = IF ClaimGuard(tasks[cur[w]]) /\ ~running
               THEN [late EXCEPT ![w] = @ + 1] ELSE late
    /\ UNCHANGED <<running, lock, cur, lrc, now, invoked, raises, cancelRet, cancelOk,
                 slept, hooks, posting, faults, stopping, stopExec>>
    /\ UNCHANGED otherQ

\* _dequeue_next: SELECT status ...; the task is returned iff it is RUNNING
ClaimVerified_Skipped(row) == TRUE

ClaimVerified_Never(row) == FALSE

ClaimVerified(row) == row.status = "running"

VerifyClaim(w) ==
    /\ pc[w] = "verify"
    /\ IF ClaimVerified(tasks[cur[w]])
       THEN /\ pc' = [pc EXCEPT ![w] = "exec"]
            /\ UNCHANGED cur
       ELSE /\ pc' = [pc EXCEPT ![w] = "idle"]
            /\ cur' = [cur EXCEPT ![w] = NoTask]
    /\ lrc' = IF ClaimVerified(tasks[cur[w]]) THEN lrc ELSE [lrc EXCEPT ![w] = 0]
    /\ lock' = 0
    /\ UNCHANGED <<tasks, running, now, invoked, raises, cancelRet, cancelOk,
                 slept, hooks, posting, faults, stopping, stopExec, late>>
    /\ UNCHANGED otherQ

\* _execute_task: the executor returns, or raises (also when none is configured)
ExecuteTask(w) ==
    /\ pc[w] = "exec"
    /\ invoked' = [invoked EXCEPT ![cur[w]] = @ + 1]
    /\ \/ /\ pc' = [pc EXCEPT ![w] = "complete"]
          /\ UNCHANGED <<lrc, raises>>
       \/ /\ raises < MaxRaises
          /\ raises' = raises + 1
          /\ lrc' = [lrc EXCEPT ![w] = @ + 1]
          /\ pc' = [pc EXCEPT ![w] = "retry_count"]
    /\ UNCHANGED <<tasks, running, lock, cur, now, cancelRet, cancelOk,
                 slept, hooks, posting, faults, stopping, stopExec, late>>
    /\ UNCHANGED otherQ

\* _send_webhook: the payload built from the worker's QueuedTask object
Payload(t, row) ==
    [task_id |-> t, status |-> row.status, result |-> row.result,
     error |-> row.error, completed_at |-> row.completed_at]

\* if task.callback_url: self._send_webhook(task) starts a POST thread
SendWebhook(t, row) ==
    IF row.callback_url # NoUrl
    THEN /\ hooks' = [hooks EXCEPT ![t] = Append(@, Payload(t, row))]
         /\ posting' = posting \cup {t}
    ELSE UNCHANGED <<hooks, posting>>

\* _execute_task: UPDATE ... SET status=COMPLETED, completed_at, result; the
\* worker's object gets the same values (its error is the one read at dequeue)
WriteCompleted(w) ==
    /\ pc[w] = "complete"
    /\ tasks' = [tasks EXCEPT ![cur[w]].status = "completed",
                              ![cur[w]].completed_at = Stamp,
                              ![cur[w]].result = "output"]
    /\ SendWebhook(cur[w], tasks'[cur[w]])
    /\ pc' = [pc EXCEPT ![w] = "idle"]
    /\ cur' = [cur EXCEPT ![w] = NoTask]
    /\ lrc' = [lrc EXCEPT ![w] = 0]
    /\ UNCHANGED <<running, lock, now, invoked, raises, cancelRet, cancelOk,
                   slept, faults, stopping, stopExec, late>>
    /\ UNCHANGED otherQ

\* _execute_task: if task.retry_count <= task.max_retries
ShouldRetry_Strict(rc, mr) == rc < mr

ShouldRetry(rc, mr) == rc <= mr

\* _update_retry_count: UPDATE ... SET retry_count=?
UpdateRetryCount(w) ==
    /\ pc[w] = "retry_count"
    /\ tasks' = [tasks EXCEPT ![cur[w]].retry_count = lrc[w]]
    /\ pc' = [pc EXCEPT ![w] =
                IF ShouldRetry(lrc[w], tasks[cur[w]].max_retries)
                THEN "backoff" ELSE "fail"]
    /\ UNCHANGED <<running, lock, cur, lrc, now, invoked, raises, cancelRet, cancelOk,
                 slept, hooks, posting, faults, stopping, stopExec, late>>
    /\ UNCHANGED otherQ

RECURSIVE Pow2(_)
Pow2(n) == IF n <= 0 THEN 1 ELSE 2 * Pow2(n - 1)

\* _retry_with_backoff: delay = 2 ** (task.retry_count - 1)
BackoffDelay_Linear(retry_count) == retry_count

BackoffDelay(retry_count) == Pow2(retry_count - 1)

\* _retry_with_backoff: time.sleep(delay)
BackoffSleep(w) ==
    /\ pc[w] = "backoff"
    /\ slept' = [slept EXCEPT ![cur[w]] = Append(@, BackoffDelay(lrc[w]))]
    /\ pc' = [pc EXCEPT ![w] = "requeue"]
    /\ UNCHANGED <<tasks, running, lock, cur, lrc, now, invoked, raises, cancelRet,
                   cancelOk, hooks, posting, faults, stopping, stopExec, late>>
    /\ UNCHANGED otherQ

\* _retry_with_backoff: after the sleep, UPDATE ... SET status=PENDING, error
RetryWithBackoff(w) ==
    /\ pc[w] = "requeue"
    /\ tasks' = [tasks EXCEPT ![cur[w]].status = "pending",
                              ![cur[w]].error = "exc"]
    /\ pc' = [pc EXCEPT ![w] = "idle"]
    /\ cur' = [cur EXCEPT ![w] = NoTask]
    /\ lrc' = [lrc EXCEPT ![w] = 0]
    /\ UNCHANGED <<running, lock, now, invoked, raises, cancelRet, cancelOk,
                 slept, hooks, posting, faults, stopping, stopExec, late>>
    /\ UNCHANGED otherQ

\* _execute_task: UPDATE ... SET status=FAILED, completed_at, error
WriteFailed(w) ==
    /\ pc[w] = "fail"
    /\ tasks' = [tasks EXCEPT ![cur[w]].status = "failed",
                              ![cur[w]].completed_at = Stamp,
                              ![cur[w]].error = "exc"]
    /\ SendWebhook(cur[w], tasks'[cur[w]])
    /\ pc' = [pc EXCEPT ![w] = "idle"]
    /\ cur' = [cur EXCEPT ![w] = NoTask]
    /\ lrc' = [lrc EXCEPT ![w] = 0]
    /\ UNCHANGED <<running, lock, now, invoked, raises, cancelRet, cancelOk,
                   slept, faults, stopping, stopExec, late>>
    /\ UNCHANGED otherQ

\* what an HTTP POST can do
PostOutcomes == {"ok", "http_error", "timeout", "unreachable"}

\* _post_json: resp.status < 400, False on any exception
PostOk(outcome) == outcome = "ok"

\* the POST thread of _send_webhook: urlopen with a 5 s timeout; a response
\* >= 400 and every exception are logged, nothing is written
WebhookPost(t, outcome) ==
    /\ t \in posting
    /\ posting' = posting \ {t}
    /\ UNCHANGED <<tasks, running, lock, pc, cur, lrc, now, invoked, raises,
                   cancelRet, cancelOk, slept, hooks, faults, stopping, stopExec, late>>
    /\ UNCHANGED otherQ

WorkerStep(w) ==
    \/ LoopCheck(w)
    \/ SelectNext(w)
    \/ ClaimUpdate(w)
    \/ VerifyClaim(w)
    \/ ExecuteTask(w)
    \/ WriteCompleted(w)
    \/ UpdateRetryCount(w)
    \/ BackoffSleep(w)
    \/ RetryWithBackoff(w)
    \/ WriteFailed(w)

QNext ==
    \/ \E p \in EnqueuePriorities : Enqueue(p, NoUrl)
    \/ \E t \in TaskIds : Cancel(t)
    \/ Start
    \/ \E w \in Workers : WorkerStep(w)

\* the queue used with and without a callback_url
QNextHook ==
    \/ \E url \in {NoUrl, "url"} : Enqueue(P_NORMAL, url)
    \/ \E t \in TaskIds : Cancel(t)
    \/ Start
    \/ \E w \in Workers : WorkerStep(w)
    \/ \E t \in TaskIds, outcome \in PostOutcomes : WebhookPost(t, outcome)

QNextCall ==
    \/ \E p \in EnqueuePriorities : Enqueue(p, NoUrl)
    \/ \E t \in TaskIds : CancelCall(t)
    \/ Start
    \/ \E w \in Workers : WorkerStep(w)

\* the tasks whose executor is running
InExecutor == {t \in DOMAIN tasks : \E w \in Workers : cur[w] = t /\ pc[w] = "exec"}

\* stop: self._running = False; with graceful the caller then joins the threads
StopCall(graceful) ==
    /\ running
    /\ stopping # "joining"
    /\ running' = FALSE
    /\ stopping' = IF graceful THEN "joining" ELSE "nowait"
    /\ stopExec' = InExecutor
    /\ UNCHANGED <<tasks, lock, pc, cur, lrc, now, invoked, raises, cancelRet,
                   cancelOk, slept, hooks, posting, faults, late>>
    /\ UNCHANGED otherQ

\* every thread has ended
AllEnded == \A w \in Workers : pc[w] \in NoThread

\* stop(graceful=True) returns: every t.join(timeout=30) has returned, because
\* the thread ended or because 30 s passed
StopReturn(timeout) ==
    /\ stopping = "joining"
    /\ timeout \/ AllEnded
    /\ stopping' = IF AllEnded THEN "joined" ELSE "timeout"
    /\ UNCHANGED <<tasks, running, lock, pc, cur, lrc, now, invoked, raises, cancelRet,
                   cancelOk, slept, hooks, posting, faults, stopExec, late>>
    /\ UNCHANGED otherQ

\* the queue started and stopped
QNextStop ==
    \/ Enqueue(P_NORMAL, NoUrl)
    \/ Start
    \/ \E w \in Workers : WorkerStep(w)
    \/ \E graceful \in BOOLEAN : StopCall(graceful)
    \/ \E timeout \in BOOLEAN : StopReturn(timeout)

\* positions of _worker_loop at which the worker runs a statement on the database
DbPcs == {"dequeue", "update", "verify", "complete", "retry_count", "requeue", "fail"}

\* a statement of worker w raises sqlite3.Error. Inside _execute_task's try (the
\* COMPLETED write) the except handler takes it for an executor failure; in
\* _dequeue_next, and in the handler's own writes, nothing catches it: it leaves
\* _worker_loop and the thread ends, the `with self._lock` released on the way
DbError(w) ==
    /\ faults < MaxFaults
    /\ pc[w] \in DbPcs
    /\ pc[w] = "dequeue" => LockFree(lock)
    /\ faults' = faults + 1
    /\ IF pc[w] = "complete"
       THEN /\ pc' = [pc EXCEPT ![w] = "retry_count"]
            /\ lrc' = [lrc EXCEPT ![w] = @ + 1]
            /\ UNCHANGED <<cur, lock>>
       ELSE /\ pc' = [pc EXCEPT ![w] = "dead"]
            /\ lrc' = [lrc EXCEPT ![w] = 0]
            /\ cur' = [cur EXCEPT ![w] = NoTask]
            /\ lock' = IF lock = w THEN 0 ELSE lock
    /\ UNCHANGED <<tasks, running, now, invoked, raises, cancelRet, cancelOk,
                   slept, hooks, posting, stopping, stopExec, late>>
    /\ UNCHANGED otherQ

\* the process ends (the workers are daemon threads) and a new TaskQueue is
\* constructed over the same db_path: __init__ keeps the rows of the tasks
\* table and starts no worker
Reopen ==
    /\ faults < MaxFaults
    /\ faults' = faults + 1
    /\ running' = FALSE
    /\ lock' = 0
    /\ pc' = [w \in Workers |-> "unborn"]
    /\ cur' = [w \in Workers |-> NoTask]
    /\ lrc' = [w \in Workers |-> 0]
    /\ posting' = {}
    /\ stopping' = "none"
    /\ UNCHANGED <<tasks, now, invoked, raises, cancelRet, cancelOk, slept, hooks,
                   stopExec, late>>
    /\ UNCHANGED otherQ

\* the queue with database errors and restarts
FNext ==
    \/ Enqueue(P_NORMAL, NoUrl)
    \/ Start
    \/ \E w \in Workers : WorkerStep(w)
    \/ \E w \in Workers : DbError(w)
    \/ Reopen

\* ------------------------------- TaskQueue.start / stop / _worker_loop threads
\* every thread start() may create: num_workers per call
Threads == 1..(MaxStarts * NumWorkers)

LiveThreads == {t \in Threads : poolPc[t] \in {"loop", "dequeue", "exec"}}

GInit ==
    /\ poolRunning = FALSE
    /\ poolJoin = FALSE
    /\ poolStarts = 0
    /\ poolPc = [t \in Threads |-> "unborn"]
    /\ poolPending = 0
    /\ poolRows = 0

PoolEnqueue ==
    /\ poolPending + poolRows < MaxPoolTasks
    /\ poolPending' = poolPending + 1
    /\ UNCHANGED <<poolRunning, poolJoin, poolStarts, poolPc, poolRows>>
    /\ UNCHANGED otherG

\* `if self._running: return`
StartReturns(flag) == flag

\* start(): nothing when _running is set; else _running = True and
\* num_workers new threads, whatever became of the earlier ones
PoolStart ==
    /\ ~poolJoin
    /\ IF StartReturns(poolRunning)
       THEN UNCHANGED <<poolRunning, poolStarts, poolPc>>
       ELSE /\ poolStarts < MaxStarts
            /\ poolRunning' = TRUE
            /\ poolStarts' = poolStarts + 1
            /\ poolPc' = [t \in Threads |->
                            IF t \in (poolStarts * NumWorkers + 1)..((poolStarts + 1) * NumWorkers)
                            THEN "loop" ELSE poolPc[t]]
    /\ UNCHANGED <<poolJoin, poolPending, poolRows>>
    /\ UNCHANGED otherG

\* stop(graceful): _running = False; graceful joins each thread for 30 s at most
PoolStop(graceful) ==
    /\ ~poolJoin
    /\ poolRunning' = FALSE
    /\ poolJoin' = graceful
    /\ UNCHANGED <<poolStarts, poolPc, poolPending, poolRows>>
    /\ UNCHANGED otherG

\* the joins return, each because its thread ended or because 30 s passed
PoolStopReturn(timeout) ==
    /\ poolJoin
    /\ timeout \/ LiveThreads = {}
    /\ poolJoin' = FALSE
    /\ UNCHANGED <<poolRunning, poolStarts, poolPc, poolPending, poolRows>>
    /\ UNCHANGED otherG

\* `while self._running:`
PoolLoopCheck(t) ==
    /\ poolPc[t] = "loop"
    /\ poolPc' = [poolPc EXCEPT ![t] = IF LoopRuns(poolRunning) THEN "dequeue" ELSE "exited"]
    /\ UNCHANGED <<poolRunning, poolJoin, poolStarts, poolPending, poolRows>>
    /\ UNCHANGED otherG

\* _dequeue_next: claim a PENDING row, or find none and sleep
PoolDequeue(t) ==
    /\ poolPc[t] = "dequeue"
    /\ IF poolPending > 0
       THEN /\ poolPending' = poolPending - 1
            /\ poolRows' = poolRows + 1
            /\ poolPc' = [poolPc EXCEPT ![t] = "exec"]
       ELSE /\ poolPc' = [poolPc EXCEPT ![t] = "loop"]
            /\ UNCHANGED <<poolPending, poolRows>>
    /\ UNCHANGED <<poolRunning, poolJoin, poolStarts>>
    /\ UNCHANGED otherG

\* _execute_task ends: the row leaves RUNNING
PoolExecute(t) ==
    /\ poolPc[t] = "exec"
    /\ poolRows' = poolRows - 1
    /\ poolPc' = [poolPc EXCEPT ![t] = "loop"]
    /\ UNCHANGED <<poolRunning, poolJoin, poolStarts, poolPending>>
    /\ UNCHANGED otherG

GNext ==
    \/ PoolEnqueue
    \/ PoolStart
    \/ \E graceful \in BOOLEAN : PoolStop(graceful)
    \/ \E timeout \in BOOLEAN : PoolStopReturn(timeout)
    \/ \E t \in Threads : PoolLoopCheck(t) \/ PoolDequeue(t) \/ PoolExecute(t)

\* ------------------------------------------------------------ HITLManager
\* the instants at which the approval gate is used, in hours
Times == {1, 25, 30}

\* the risk_level arguments check_and_gate is called with
RiskInputs == {"LOW", "low", "MEDIUM", "Medium", "HIGH", "high"}

TerminalStatus == {"APPROVED", "REJECTED", "TIMEOUT", "AUTO_APPROVED"}

\* no client call recorded
NoCall ==
    [op |-> "none", id |-> NoRequest, action |-> "null", approved |-> FALSE,
     pending |-> {}]

HInit ==
    /\ requests = <<>>
    /\ requireMed \in BOOLEAN
    /\ hnow = 1
    /\ epc = "idle"
    /\ eNow = NoTime
    /\ eExpired = {}
    /\ gateArg = "none"
    /\ gateSent = "none"
    /\ hcall = NoCall

\* str.upper() on the risk levels callers pass
Upper_Identity(s) == s

Upper(s) ==
    CASE s \in {"LOW", "low"} -> "LOW"
      [] s \in {"MEDIUM", "Medium"} -> "MEDIUM"
      [] s \in {"HIGH", "high"} -> "HIGH"
      [] OTHER -> s

\* check_and_gate: the branch taken for risk_upper
GateStatus(risk_upper) ==
    IF risk_upper = "LOW" THEN "AUTO_APPROVED"
    ELSE IF risk_upper = "MEDIUM" /\ ~requireMed THEN "AUTO_APPROVED"
    ELSE "PENDING"

\* check_and_gate: the notifier is called for a PENDING request only, and
\* _update_webhook_sent when it returns True
WebhookSent_Always(st, sent) == st = "PENDING"

WebhookSent(st, sent) == st = "PENDING" /\ sent

ApprovalRequest(risk_upper, sent) ==
    LET st == GateStatus(risk_upper) IN
    [risk_level |-> risk_upper,
     status |-> st,
     created_at |-> hnow,
     resolved_at |-> IF st = "AUTO_APPROVED" THEN Stamp ELSE NoTime,
     resolved_by |-> IF st = "AUTO_APPROVED" THEN "system" ELSE "null",
     resolution_note |-> IF st # "AUTO_APPROVED" THEN "null"
                         ELSE IF risk_upper = "LOW" THEN "AUTO_APPROVED: LOW risk"
                         ELSE "AUTO_APPROVED: MEDIUM risk",
     webhook_sent |-> WebhookSent(st, sent),
     timeout_hours |-> TIMEOUT_HOURS]

\* check_and_gate: _save_request, and for a PENDING request the notifier and,
\* when it reports success, _update_webhook_sent
GateSave(risk_level, sent) ==
    /\ Len(requests) < MaxRequests
    /\ requests' = Append(requests, ApprovalRequest(Upper(risk_level), sent))
    /\ gateArg' = risk_level
    /\ UNCHANGED <<requireMed, hnow, epc, eNow, eExpired, hcall>>
    /\ UNCHANGED otherH

CheckAndGate(risk_level, sent) ==
    GateSave(risk_level, sent) /\ UNCHANGED gateSent

\* the same call with the outcome of the notifier's POST recorded
\* (one webhook URL configured)
CheckAndGateNotify(risk_level, outcome) ==
    /\ GateSave(risk_level, PostOk(outcome))
    /\ gateSent' = IF GateStatus(Upper(risk_level)) = "PENDING"
                   THEN outcome ELSE "not_called"

\* resolve: UPDATE ... SET status, resolved_at, resolved_by, resolution_note
\*          WHERE request_id=?
NewStatus_Approved(action) == "APPROVED"

NewStatus(action) == IF action = "approve" THEN "APPROVED" ELSE "REJECTED"

ResolveRows(id, action, by, note) ==
    /\ requests' =
         IF id \in DOMAIN requests
         THEN [requests EXCEPT
                 ![id].status = NewStatus(action),
                 ![id].resolved_at = Stamp,
                 ![id].resolved_by = by,
                 ![id].resolution_note = note]
         ELSE requests
    /\ UNCHANGED <<requireMed, hnow, epc, eNow, eExpired, gateArg, gateSent>>
    /\ UNCHANGED otherH

Resolve(id, action, by, note) == ResolveRows(id, action, by, note) /\ UNCHANGED hcall

\* the same call with its arguments recorded
ResolveCall(id, action, by, note) ==
    /\ ResolveRows(id, action, by, note)
    /\ hcall' = [NoCall EXCEPT !.op = "resolve", !.id = id, !.action = action]

\* get_request: SELECT * ... WHERE request_id=?; None when there is no row
GetRequest(id) == IF id \in DOMAIN requests THEN id ELSE NoRequest

\* is_approved: False for None, else status in (APPROVED, AUTO_APPROVED)
ApprovedStatuses_NoAuto == {"APPROVED"}

ApprovedStatuses == {"APPROVED", "AUTO_APPROVED"}

IsApproved(id) ==
    LET req == GetRequest(id) IN
    IF req = NoRequest THEN FALSE ELSE requests[req].status \in ApprovedStatuses

IsApprovedCall(id) ==
    /\ hcall' = [NoCall EXCEPT !.op = "is_approved", !.id = id,
                               !.approved = IsApproved(id)]
    /\ UNCHANGED <<requests, requireMed, hnow, epc, eNow, eExpired, gateArg, gateSent>>
    /\ UNCHANGED otherH

\* get_pending_requests: SELECT * ... WHERE status=PENDING (the rows returned,
\* whatever their order)
GetPendingRequests == {r \in DOMAIN requests : requests[r].status = "PENDING"}

GetPendingCall ==
    /\ hcall' = [NoCall EXCEPT !.op = "get_pending_requests",
                               !.pending = GetPendingRequests]
    /\ UNCHANGED <<requests, requireMed, hnow, epc, eNow, eExpired, gateArg, gateSent>>
    /\ UNCHANGED otherH

\* expire_timeouts: now = utcnow(); SELECT the PENDING rows; collect the
\* overdue ones; return [] when there is none
ExpireSelect ==
    /\ epc = "idle"
    /\ LET expired == {r \in DOMAIN requests :
                          /\ requests[r].status = "PENDING"
                          /\ hnow >= requests[r].created_at + requests[r].timeout_hours}
       IN IF expired = {}
          THEN UNCHANGED <<epc, eNow, eExpired>>
          ELSE /\ epc' = "update"
               /\ eNow' = hnow
               /\ eExpired' = expired
    /\ UNCHANGED <<requests, requireMed, hnow, gateArg, gateSent, hcall>>
    /\ UNCHANGED otherH

\* expire_timeouts: executemany(UPDATE ... SET status=TIMEOUT WHERE request_id=?),
\* then return expired
ExpireUpdate ==
    /\ epc = "update"
    /\ requests' = [r \in DOMAIN requests |->
                      IF r \in eExpired
                      THEN [requests[r] EXCEPT !.status = "TIMEOUT"]
                      ELSE requests[r]]
    /\ epc' = "idle"
    /\ eNow' = NoTime
    /\ eExpired' = {}
    /\ UNCHANGED <<requireMed, hnow, gateArg, gateSent, hcall>>
    /\ UNCHANGED otherH

\* time passes
Tick ==
    /\ \E t \in Times : t > hnow /\ hnow' = t
    /\ UNCHANGED <<requests, requireMed, epc, eNow, eExpired, gateArg, gateSent, hcall>>
    /\ UNCHANGED otherH

HNext ==
    \/ \E risk_level \in RiskInputs, sent \in BOOLEAN : CheckAndGate(risk_level, sent)
    \/ \E id \in 1..MaxRequests, action \in {"approve", "reject"} :
          Resolve(id, action, "admin", "note")
    \/ ExpireSelect
    \/ ExpireUpdate
    \/ Tick

\* the gate with its clients' calls recorded
HNextCall ==
    \/ \E risk_level \in {"LOW", "MEDIUM", "HIGH"} : CheckAndGate(risk_level, TRUE)
    \/ \E id \in 1..MaxRequests, action \in {"approve", "reject"} :
          ResolveCall(id, action, "admin", "note")
    \/ \E id \in 1..MaxRequests : IsApprovedCall(id)
    \/ GetPendingCall
    \/ ExpireSelect
    \/ ExpireUpdate
    \/ Tick

\* the gate used with a notifier whose POST may fail
HNextNotify ==
    \E risk_level \in RiskInputs, outcome \in PostOutcomes :
        CheckAndGateNotify(risk_level, outcome)

\* notifications of both components; they share no state, and a behaviour
\* exercises one of them
NNext ==
    \/ requests = <<>> /\ QNextHook
    \/ tasks = <<>> /\ ~running /\ HNextNotify

\* -------------------------------------------------------------- GitMemory
Agents == {"KM_AGENT", "PROCESS_AGENT"}

\* commit_progress: log_entry, and the entry line of _update_progress_md
ProgressLine(agent_name, task_id, message) ==
    [agent_name |-> agent_name, task_id |-> task_id, message |-> message]

MInit ==
    /\ logFile = <<>>
    /\ progressMd = <<>>

\* commit_progress: append the entry to docs/progress.log, then
\* _update_progress_md creates PROGRESS.md with the entry or appends the entry
WriteProgress(agent_name, task_id, message) ==
    /\ logFile' = Append(logFile, ProgressLine(agent_name, task_id, message))
    /\ progressMd' = Append(progressMd, ProgressLine(agent_name, task_id, message))

CommitProgress(agent_name, task_id, message) ==
    /\ Len(progressMd) < MaxLines
    /\ WriteProgress(agent_name, task_id, message)
    /\ UNCHANGED otherM

\* commit_session: the message built from a SessionResult (score and output
\* text left out)
SessionMessage(success, risk_level) ==
    IF success
    THEN CASE risk_level = "LOW" -> "COMPLETED | Risk: LOW"
           [] risk_level = "MEDIUM" -> "COMPLETED | Risk: MEDIUM"
           [] OTHER -> "COMPLETED | Risk: HIGH"
    ELSE CASE risk_level = "LOW" -> "FAILED | Risk: LOW"
           [] risk_level = "MEDIUM" -> "FAILED | Risk: MEDIUM"
           [] OTHER -> "FAILED | Risk: HIGH"

\* EnterpriseHarness.commit_session called on a SessionResult
CommitSession(agent_name, task_id, success, risk_level) ==
    /\ Len(progressMd) < MaxLines
    /\ WriteProgress(agent_name, task_id, SessionMessage(success, risk_level))
    /\ UNCHANGED otherM

MNext ==
    \/ \E a \in Agents, t \in 1..2, m \in {"m1", "m2"} : CommitProgress(a, t, m)
    \/ \E a \in Agents, t \in 1..2, ok \in BOOLEAN : CommitSession(a, t, ok, "LOW")

\* ----------------------------------------------------------- SessionStore
\* the SessionRecord values save_session is called with
SessionRecords ==
    [agent_name : Agents, task_id : 1..2, success : BOOLEAN,
     eval_score : {5, 9}, risk_level : {"LOW"}, output : {"ok", "retry"}]

Pairs == Agents \X (1..2)

NoRecord == [agent_name |-> "null"]

SInit ==
    /\ sessions = <<>>
    /\ lastSaved = [k \in Pairs |-> NoRecord]

\* save_session: INSERT INTO sessions (...) VALUES (...); returns lastrowid
SaveSession(record) ==
    /\ Len(sessions) < MaxSaves
    /\ sessions' = Append(sessions, record)
    /\ lastSaved' = [lastSaved EXCEPT ![<<record.agent_name, record.task_id>>] = record]
    /\ UNCHANGED otherS

SNext == \E record \in SessionRecords : SaveSession(record)

\* ------------------------------------------------------ EnterpriseHarness
\* an instruction, by the keyword lists it hits
Instructions == [high : BOOLEAN, med : BOOLEAN]

\* RiskAssessor.assess: a HIGH keyword wins over a MEDIUM keyword
Assess(task) ==
    IF task.high THEN "HIGH" ELSE IF task.med THEN "MEDIUM" ELSE "LOW"

EInit ==
    /\ runs = <<>>
    /\ esec = 1

\* run_epcc_cycle is entered (directly, or from BaseAgent.run):
\* task_id = f"TASK-{int(time.time())}"
SessionStart(agent_name, task, via, sec) ==
    [agent_name |-> agent_name, task_id |-> sec, task |-> task, via |-> via,
     pc |-> "explore", risk |-> "none",
     request_id |-> NoRequest, executed |-> FALSE, success |-> FALSE,
     output |-> NoResult, evaluated |-> FALSE, commits |-> 0]

\* the clock at a call: the second of the previous call, or a later one
\* (seconds are counted from the first call)
Seconds == IF runs = <<>> THEN {esec} ELSE {esec, esec + 1}

RunEpcc(agent_name, task) ==
    /\ Len(runs) < MaxRuns
    /\ \E sec \in Seconds :
         /\ esec' = sec
         /\ runs' = Append(runs, SessionStart(agent_name, task, "harness", sec))
    /\ UNCHANGED mvars
    /\ UNCHANGED otherE

\* _dispatch_single: an UNKNOWN agent or one that is not registered returns
\* without running; otherwise agent.run(user_prompt) enters run_epcc_cycle
DispatchSingle(task, agent_name) ==
    /\ Len(runs) < MaxRuns
    /\ agent_name \notin {"UNKNOWN", "UNREGISTERED"}
    /\ \E sec \in Seconds :
         /\ esec' = sec
         /\ runs' = Append(runs, SessionStart(agent_name, task, "dispatch", sec))
    /\ UNCHANGED mvars
    /\ UNCHANGED otherE

\* Explore: restore_context
Explore(r) ==
    /\ runs[r].pc = "explore"
    /\ runs' = [runs EXCEPT ![r].pc = "plan"]
    /\ UNCHANGED <<esec, mvars>>
    /\ UNCHANGED otherE

\* Plan: assess_risk; a HIGH risk is printed, nothing else
Plan(r) ==
    /\ runs[r].pc = "plan"
    /\ runs' = [runs EXCEPT ![r].risk = Assess(runs[r].task), ![r].pc = "code"]
    /\ UNCHANGED <<esec, mvars>>
    /\ UNCHANGED otherE

\* `except Exception as e` around the executor call
ExceptCatches_Nothing(outcome) == FALSE

ExceptCatches(outcome) == outcome = "raises"

\* Code: executor_fn(task, context) returns its output or raises an Exception;
\* the handler makes the output the failure text and success False
Code(r) ==
    /\ runs[r].pc = "code"
    /\ \E outcome \in {"returns", "raises"} :
         runs' = [runs EXCEPT
                    ![r].executed = TRUE,
                    ![r].success = (outcome = "returns"),
                    ![r].output = IF outcome = "returns" THEN "output"
                                  ELSE IF ExceptCatches(outcome) THEN "failed: exc"
                                  ELSE NoResult,
                    ![r].pc = IF outcome = "returns" \/ ExceptCatches(outcome)
                              THEN "commit" ELSE "raised"]
    /\ UNCHANGED <<esec, mvars>>
    /\ UNCHANGED otherE

\* Evaluate and Commit: evaluate_output, commit_session, return the result
Commit(r) ==
    /\ runs[r].pc = "commit"
    /\ runs' = [runs EXCEPT ![r].pc = "done", ![r].evaluated = TRUE,
                            ![r].commits = @ + 1]
    /\ WriteProgress(runs[r].agent_name, runs[r].task_id,
                     SessionMessage(runs[r].success, runs[r].risk))
    /\ UNCHANGED esec
    /\ UNCHANGED otherE

ENext ==
    \/ \E task \in Instructions : RunEpcc("KM_AGENT", task)
    \/ \E task \in Instructions, a \in {"KM_AGENT", "UNKNOWN", "UNREGISTERED"} :
          DispatchSingle(task, a)
    \/ \E r \in DOMAIN runs : Explore(r)
    \/ \E r \in DOMAIN runs : Plan(r)
    \/ \E r \in DOMAIN runs : Code(r)
    \/ \E r \in DOMAIN runs : Commit(r)

\* --------------------------------------------------- SemanticRiskAssessor
\* what self._llm.chat gives: no provider, an exception, an empty response,
\* text without braces, braces around invalid JSON, or a JSON object with a
\* level and a confidence (in hundredths; numeric = FALSE: float() raises)
LlmAnswers ==
    [kind : {"no_llm", "raises", "empty", "no_braces", "bad_json"}]
    \cup [kind : {"json"},
          level : {"LOW", "low", "MED", "MEDIUM", "HIGH", "CRITICAL", ""},
          numeric : BOOLEAN,
          confidence : {0, 79, 80, 95}]

NoLevel == "none"

\* _RISK_ORDER.index
RiskIndex(l) == CASE l = "LOW" -> 0 [] l = "MEDIUM" -> 1 [] l = "HIGH" -> 2

\* _max_risk
MaxRisk_First(a, b) == a

MaxRisk(a, b) == IF RiskIndex(a) >= RiskIndex(b) THEN a ELSE b

\* _assess_with_llm: level_map after str(...).upper()
LevelMap(raw) ==
    CASE raw = "LOW" -> "LOW"
      [] raw \in {"MEDIUM", "MED"} -> "MEDIUM"
      [] raw = "HIGH" -> "HIGH"
      [] OTHER -> NoLevel

\* _assess_with_llm: (level, confidence), or None as <<NoLevel, 0>>
AssessWithLlm(answer) ==
    IF answer.kind # "json" THEN <<NoLevel, 0>>
    ELSE IF LevelMap(Upper(answer.level)) = NoLevel THEN <<NoLevel, 0>>
    ELSE IF ~answer.numeric THEN <<NoLevel, 0>>
    ELSE <<LevelMap(Upper(answer.level)), answer.confidence>>

\* SemanticRiskAssessor.assess: the level returned and the mode logged
SemanticLevel(task, answer) ==
    LET llm == AssessWithLlm(answer)
        rule_level == Assess(task)
    IN IF llm[1] # NoLevel /\ llm[2] >= ConfidenceThreshold
       THEN [level |-> MaxRisk(llm[1], rule_level), mode |-> "llm"]
       ELSE [level |-> rule_level, mode |-> "keyword"]

RInit == assessmentLog = <<>>

SemanticAssess(task, answer) ==
    /\ Len(assessmentLog) < MaxAssess
    /\ assessmentLog' =
          Append(assessmentLog,
                 [task |-> task, answer |-> answer,
                  level |-> SemanticLevel(task, answer).level,
                  mode |-> SemanticLevel(task, answer).mode])
    /\ UNCHANGED otherR

RNext == \E task \in Instructions, answer \in LlmAnswers : SemanticAssess(task, answer)

\* ---------------------------------------------------------- WorkflowEngine
\* node types ast.walk can meet in a condition's tree
SafeNodes == {"BoolOp", "Compare", "Constant", "Name"}

UnsafeNodes == {"Call", "Attribute", "Subscript", "ListComp", "Lambda"}

\* a condition string: one ast.parse rejects, or its tree given by the node
\* types in it and by what eval of the compiled tree would do in the context
Conditions ==
    [kind : {"syntax_error"}]
    \cup [kind : {"tree"},
          nodes : {ns \in SUBSET (SafeNodes \cup UnsafeNodes) :
                      Cardinality(ns) \in 1..MaxNodes},
          outcome : {"true", "false", "name_error", "type_error"}]

\* isinstance(node, _SAFE_AST_NODES)
NodeAllowed_All(n) == TRUE

NodeAllowed(n) == n \in SafeNodes

\* _safe_eval_condition: the value returned, or the exception raised, and
\* whether eval was reached
SafeEvalCondition(c) ==
    IF c.kind = "syntax_error" THEN [ret |-> "false", evaluated |-> FALSE]
    ELSE IF \E n \in c.nodes : ~NodeAllowed(n)
         THEN [ret |-> "ValueError", evaluated |-> FALSE]
    ELSE IF c.outcome \in {"name_error", "type_error"}
         THEN [ret |-> "raises", evaluated |-> TRUE]
    ELSE [ret |-> c.outcome, evaluated |-> TRUE]

\* _execute_condition_step: any exception gives False
ExecuteConditionStep(c) == SafeEvalCondition(c).ret = "true"

WInit == stepResults = <<>>

\* _execute_step on a CONDITION step with a condition
ConditionStep(c) ==
    /\ Len(stepResults) < MaxSteps
    /\ stepResults' =
          Append(stepResults,
                 [agent_name |-> "CONDITION",
                  condition |-> c,
                  success |-> ExecuteConditionStep(c),
                  output |-> IF ExecuteConditionStep(c)
                             THEN "condition_passed" ELSE "condition_failed",
                  evaluated |-> SafeEvalCondition(c).evaluated])
    /\ UNCHANGED otherW

WNext == \E c \in Conditions : ConditionStep(c)

\* --------------------------------------------------- WorkflowEngine.execute
\* on_success / on_failure: None, the id of a step, or an id no step has
StepTargets == 0..(MaxWfSteps + 1)

WorkflowSteps == [on_success : StepTargets, on_failure : StepTargets]

\* the definitions register accepts: any list of steps, the empty one included
Workflows == UNION {[1..n -> WorkflowSteps] : n \in 0..MaxWfSteps}

XInit ==
    /\ wfState = "none"
    /\ wf = <<>>
    /\ stepQueue = <<>>
    /\ wi = 1
    /\ wfResults = <<>>
    /\ wfSuccess = FALSE

\* register(workflow); execute(workflow_id): step_queue = list(workflow.steps)
Execute(workflow) ==
    /\ wfState = "none"
    /\ wfState' = "running"
    /\ wf' = workflow
    /\ stepQueue' = [k \in 1..Len(workflow) |-> k]
    /\ wi' = 1
    /\ UNCHANGED <<wfResults, wfSuccess>>
    /\ UNCHANGED otherX

\* steps_by_id.get(step_id)
StepsById(step_id) == IF step_id \in DOMAIN wf THEN step_id ELSE NoStep

\* the branch target named by the step for this result, None if there is none
BranchTarget(step, success) ==
    IF success /\ step.on_success # NoStep THEN StepsById(step.on_success)
    ELSE IF ~success /\ step.on_failure # NoStep THEN StepsById(step.on_failure)
    ELSE NoStep

\* target in step_queue[i + 1:]
Scheduled_Anywhere(target, queue, i) == \E k \in 1..Len(queue) : queue[k] = target

Scheduled(target, queue, i) == \E k \in (i + 1)..Len(queue) : queue[k] = target

\* step_queue.insert(i + 1, target)
InsertAfter(queue, i, target) ==
    SubSeq(queue, 1, i) \o <<target>> \o SubSeq(queue, i + 1, Len(queue))

\* one round of the while loop: _execute_step succeeds or fails, the result is
\* appended, the branch target is inserted, i += 1
ExecuteStep(success) ==
    /\ wfState = "running"
    /\ wi <= Len(stepQueue)
    /\ Len(wfResults) < MaxExec
    /\ LET target == BranchTarget(wf[stepQueue[wi]], success) IN
       /\ wfResults' = Append(wfResults,
                              [step_id |-> stepQueue[wi], success |-> success])
       /\ stepQueue' = IF target # NoStep /\ ~Scheduled(target, stepQueue, wi)
                       THEN InsertAfter(stepQueue, wi, target)
                       ELSE stepQueue
    /\ wi' = wi + 1
    /\ UNCHANGED <<wfState, wf, wfSuccess>>
    /\ UNCHANGED otherX

\* the loop has ended: success = all(r.success ...) if step_results else False
ExecuteReturn ==
    /\ wfState = "running"
    /\ wi > Len(stepQueue)
    /\ wfState' = "done"
    /\ wfSuccess' = IF wfResults # <<>>
                    THEN \A k \in DOMAIN wfResults : wfResults[k].success
                    ELSE FALSE
    /\ UNCHANGED <<wf, stepQueue, wi, wfResults>>
    /\ UNCHANGED otherX

XNext ==
    \/ \E workflow \in Workflows : Execute(workflow)
    \/ \E success \in BOOLEAN : ExecuteStep(success)
    \/ ExecuteReturn

\* the while loop of execute from position i on: stepQueue holds
\* step_queue[i:]; the steps already executed and their results never
\* influence the rounds still to come and are left out, and of i only its
\* parity is kept, so that a run without end is a cycle of states in which
\* every round is a step
RoundFrom(success) ==
    /\ wfState = "running"
    /\ stepQueue # <<>>
    /\ LET target == BranchTarget(wf[stepQueue[1]], success) IN
       stepQueue' = Tail(IF target # NoStep /\ ~Scheduled(target, stepQueue, 1)
                         THEN InsertAfter(stepQueue, 1, target)
                         ELSE stepQueue)
    /\ wi' = 3 - wi
    /\ UNCHANGED <<wfState, wf, wfResults, wfSuccess>>
    /\ UNCHANGED otherX

\* `while i < len(step_queue)` is false: execute returns
ReturnFrom ==
    /\ wfState = "running"
    /\ stepQueue = <<>>
    /\ wfState' = "done"
    /\ UNCHANGED <<wf, stepQueue, wi, wfResults, wfSuccess>>
    /\ UNCHANGED otherX

Round == \E success \in BOOLEAN : RoundFrom(success)

XNextFrom ==
    \/ \E workflow \in Workflows : Execute(workflow)
    \/ Round
    \/ ReturnFrom

\* ------------------------------------------ WorkflowEngine._execute_loop_step
\* a LOOP step, by whether it has a condition and by its max_iterations
LoopSteps == [has_condition : BOOLEAN, max_iterations : 0..MaxIter]

\* what _call_agent does in one round: it raises, or returns an output that
\* _score_output scores (in hundredths)
AgentOutcomes ==
    {[raises |-> TRUE, score |-> 0],
     [raises |-> FALSE, score |-> 50],
     [raises |-> FALSE, score |-> 70],
     [raises |-> FALSE, score |-> 80],
     [raises |-> FALSE, score |-> 100]}

\* the step's condition in the context of one round: safe nodes only; eval
\* gives true or false, or raises NameError
LoopConditions ==
    [kind : {"tree"}, nodes : {{"Compare"}},
     outcome : {"true", "false", "name_error"}]

LInit ==
    /\ loopState = "none"
    /\ loopStep = [has_condition |-> FALSE, max_iterations |-> 0]
    /\ loopIter = 0
    /\ loopCalls = 0
    /\ loopBroke = FALSE
    /\ lastResult = FALSE
    /\ ctxIter = NoIter
    /\ ctxScore = NoIter

\* _execute_loop_step is entered: last_result = StepResult(success=False, ...)
LoopStart(step) ==
    /\ loopState = "none"
    /\ loopState' = "running"
    /\ loopStep' = step
    /\ UNCHANGED <<loopIter, loopCalls, loopBroke, lastResult, ctxIter, ctxScore>>
    /\ UNCHANGED otherL

\* last_result.success before the exit test: score >= 0.75
ScoreOk(score) == score >= ScoreThreshold

\* the exit test: the condition if the step has one, else score >= 0.75
Passed(step, score, c) ==
    IF step.has_condition THEN ExecuteConditionStep(c) ELSE ScoreOk(score)

\* last_result.success when the round ends: score >= 0.75, set to True when
\* the exit test passed
RoundSuccess(step, score, c) == ScoreOk(score) \/ Passed(step, score, c)

\* one round of `for iteration in range(step.max_iterations)`
LoopRound(outcome, c) ==
    /\ loopState = "running"
    /\ ~loopBroke
    /\ loopIter < loopStep.max_iterations
    /\ loopIter' = loopIter + 1
    /\ loopCalls' = loopCalls + 1
    /\ ctxIter' = loopIter + 1
    /\ ctxScore' = outcome.score
    /\ IF outcome.raises
       THEN /\ lastResult' = FALSE
            /\ UNCHANGED loopBroke
       ELSE /\ lastResult' = RoundSuccess(loopStep, outcome.score, c)
            /\ loopBroke' = Passed(loopStep, outcome.score, c)
    /\ UNCHANGED <<loopState, loopStep>>
    /\ UNCHANGED otherL

\* return last_result: after `break`, or when range() is exhausted
LoopReturn ==
    /\ loopState = "running"
    /\ loopBroke \/ loopIter >= loopStep.max_iterations
    /\ loopState' = "done"
    /\ UNCHANGED <<loopStep, loopIter, loopCalls, loopBroke, lastResult, ctxIter,
                   ctxScore>>
    /\ UNCHANGED otherL

LNext ==
    \/ \E step \in LoopSteps : LoopStart(step)
    \/ \E outcome \in AgentOutcomes, c \in LoopConditions : LoopRound(outcome, c)
    \/ LoopReturn

\* ------------------------------------- WorkflowEngine._execute_parallel_step
\* a text is a sequence of tokens; "" is the empty sequence
Texts == {<<>>, <<"prev">>}

\* the keys of the context the steps read and write
Contexts ==
    [last_output : Texts, iteration : {NoIter, 1}, eval_score : {NoIter},
     parallel_results : {<<>>}]

NoContext ==
    [last_output |-> <<>>, iteration |-> NoIter, eval_score |-> NoIter,
     parallel_results |-> <<>>]

\* the sub-steps of a PARALLEL step: AGENT, LOOP and CONDITION steps
BranchSteps == [type : {"AGENT", "LOOP", "CONDITION"}, agent_name : Agents]

ParallelSteps == UNION {[1..n -> BranchSteps] : n \in 0..MaxBranches}

Branches == 1..MaxBranches

NoStepResult == [agent_name |-> "none", success |-> FALSE, output |-> <<>>]

KInit ==
    /\ parState = "none"
    /\ parSteps = <<>>
    /\ ctxs = [r \in 0..MaxBranches |-> NoContext]
    /\ ctxAtCall = NoContext
    /\ ctxSeen = [k \in Branches |-> NoContext]
    /\ branchRuns = [k \in Branches |-> 0]
    /\ subResults = <<>>
    /\ parResult = NoStepResult
    /\ mergeOutput = <<>>

BranchContext_Shared(k) == 0

\* executor.submit(self._execute_step, sub_step, dict(context)): branch k
\* works on dict number k
BranchContext(k) == k

\* _execute_parallel_step is entered with the workflow's ctx; every branch is
\* submitted with dict(context)
ParallelStart(steps, context) ==
    /\ parState = "none"
    /\ parState' = "running"
    /\ parSteps' = steps
    /\ ctxs' = [r \in 0..MaxBranches |-> context]
    /\ ctxAtCall' = context
    /\ UNCHANGED <<ctxSeen, branchRuns, subResults, parResult, mergeOutput>>
    /\ UNCHANGED otherK

\* what a branch's agent does: it raises, or returns a text that
\* _score_output scores (in hundredths)
BranchOutcomes ==
    {[raises |-> TRUE, score |-> 0, output |-> <<>>],
     [raises |-> FALSE, score |-> 50, output |-> <<"draft">>],
     [raises |-> FALSE, score |-> 80, output |-> <<"report">>]}

\* the StepResult of one branch, from the context it was given
\* (a CONDITION branch here tests `iteration >= 1`)
BranchResult(step, context, outcome) ==
    CASE step.type = "AGENT" ->
            [agent_name |-> step.agent_name, success |-> ~outcome.raises,
             output |-> outcome.output]
      [] step.type = "LOOP" ->
            [agent_name |-> step.agent_name,
             success |-> ~outcome.raises /\ ScoreOk(outcome.score),
             output |-> outcome.output]
      [] step.type = "CONDITION" ->
            [agent_name |-> "CONDITION", success |-> context.iteration >= 1,
             output |-> IF context.iteration >= 1 THEN <<"condition_passed">>
                        ELSE <<"condition_failed">>]

\* the context writes of one branch: only _execute_loop_step assigns keys
\* (last_output, eval_score, iteration)
BranchWrites(step, context, outcome) ==
    IF step.type = "LOOP"
    THEN [context EXCEPT !.last_output = outcome.output,
                         !.eval_score = outcome.score,
                         !.iteration = 1]
    ELSE context

\* one future runs _execute_step(sub_step, its dict) and as_completed yields it
BranchRun(k, outcome) ==
    /\ parState = "running"
    /\ k \in DOMAIN parSteps
    /\ branchRuns[k] = 0
    /\ LET ref == BranchContext(k)
           context == ctxs[ref]
       IN  /\ ctxSeen' = [ctxSeen EXCEPT ![k] = context]
           /\ ctxs' = [ctxs EXCEPT ![ref] = BranchWrites(parSteps[k], context, outcome)]
           /\ subResults' = Append(subResults, BranchResult(parSteps[k], context, outcome))
    /\ branchRuns' = [branchRuns EXCEPT ![k] = @ + 1]
    /\ UNCHANGED <<parState, parSteps, ctxAtCall, parResult, mergeOutput>>
    /\ UNCHANGED otherK

\* f"[{r.agent_name}] {r.output}"
Block(r) == <<r.agent_name>> \o r.output

\* "\n---\n".join(...)
RECURSIVE Join(_)
Join(results) ==
    IF results = <<>> THEN <<>>
    ELSE IF Len(results) = 1 THEN Block(results[1])
    ELSE Block(results[1]) \o <<"---">> \o Join(Tail(results))

AllSuccess_Any(results) == \E i \in DOMAIN results : results[i].success

\* all(r.success for r in sub_results)
AllSuccess(results) == \A i \in DOMAIN results : results[i].success

\* every future is collected: context["_parallel_results"] = sub_results and
\* the StepResult is returned; execute then stores its output in ctx
ParallelReturn ==
    /\ parState = "running"
    /\ \A k \in DOMAIN parSteps : branchRuns[k] = 1
    /\ parState' = "returned"
    /\ parResult' = [agent_name |-> "PARALLEL", success |-> AllSuccess(subResults),
                     output |-> Join(subResults)]
    /\ ctxs' = [ctxs EXCEPT ![0] = [@ EXCEPT !.parallel_results = subResults,
                                             !.last_output = Join(subResults)]]
    /\ UNCHANGED <<parSteps, ctxAtCall, ctxSeen, branchRuns, subResults, mergeOutput>>
    /\ UNCHANGED otherK

\* _merge_parallel_results(ctx), for the MERGE step that follows
MergeParallelResults(context) ==
    IF context.parallel_results = <<>> THEN context.last_output
    ELSE Join(context.parallel_results)

MergeStep ==
    /\ parState = "returned"
    /\ parState' = "merged"
    /\ mergeOutput' = MergeParallelResults(ctxs[0])
    /\ UNCHANGED <<parSteps, ctxs, ctxAtCall, ctxSeen, branchRuns, subResults, parResult>>
    /\ UNCHANGED otherK

KNext ==
    \/ \E steps \in ParallelSteps, context \in Contexts : ParallelStart(steps, context)
    \/ \E k \in Branches, outcome \in BranchOutcomes : BranchRun(k, outcome)
    \/ ParallelReturn
    \/ MergeStep

\* ------------------------------------------ BaseAgent.run / AgentProfile
\* eval_score (in hundredths) and duration of a run
RunResults == [score : {40, 100}, duration : {1, 3}]

NoRun == [score |-> 0, duration |-> 0]

\* AgentProfile.__init__: the accumulators of the day start empty
NewProfile(total) ==
    [total_tasks_completed |-> total, today_scores |-> <<>>,
     today_durations |-> <<>>, today_successes |-> 0]

AInit ==
    /\ profileRow = 0
    /\ perfHistory = <<>>
    /\ apc = [w \in Workers |-> "idle"]
    /\ runResult = [w \in Workers |-> NoRun]
    /\ local = [w \in Workers |-> NewProfile(0)]
    /\ dayRuns = <<>>

RunsStarted == Len(dayRuns) + Cardinality({w \in Workers : apc[w] # "idle"})

\* run_epcc_cycle returns a result with its eval_score; duration is measured
AgentRun(w, r) ==
    /\ apc[w] = "idle"
    /\ RunsStarted < MaxAgentRuns
    /\ apc' = [apc EXCEPT ![w] = "ran"]
    /\ runResult' = [runResult EXCEPT ![w] = r]
    /\ UNCHANGED <<profileRow, perfHistory, local, dayRuns>>
    /\ UNCHANGED otherA

\* load_profile: a new AgentProfile with the totals of the row
LoadProfile(w) ==
    /\ apc[w] = "ran"
    /\ apc' = [apc EXCEPT ![w] = "loaded"]
    /\ local' = [local EXCEPT ![w] = NewProfile(profileRow)]
    /\ UNCHANGED <<profileRow, perfHistory, runResult, dayRuns>>
    /\ UNCHANGED otherA

\* record_task(score, duration_sec, tokens)
RecordTask(profile, r) ==
    [total_tasks_completed |-> profile.total_tasks_completed + 1,
     today_scores |-> Append(profile.today_scores, r.score),
     today_durations |-> Append(profile.today_durations, r.duration),
     today_successes |-> IF r.score >= SuccessThreshold
                         THEN profile.today_successes + 1
                         ELSE profile.today_successes]

RecordTaskCall(w) ==
    /\ apc[w] = "loaded"
    /\ apc' = [apc EXCEPT ![w] = "recorded"]
    /\ local' = [local EXCEPT ![w] = RecordTask(local[w], runResult[w])]
    /\ UNCHANGED <<profileRow, perfHistory, runResult, dayRuns>>
    /\ UNCHANGED otherA

\* save_profile: INSERT ... ON CONFLICT DO UPDATE SET total_tasks_completed
SaveProfile(w) ==
    /\ apc[w] = "recorded"
    /\ apc' = [apc EXCEPT ![w] = "saved"]
    /\ profileRow' = local[w].total_tasks_completed
    /\ UNCHANGED <<perfHistory, runResult, local, dayRuns>>
    /\ UNCHANGED otherA

RECURSIVE SumSeq(_)
SumSeq(q) == IF q = <<>> THEN 0 ELSE Head(q) + SumSeq(Tail(q))

\* get_today_snapshot: the averages are kept as sum and count
GetTodaySnapshot(profile) ==
    LET n == Len(profile.today_scores)
    IN  [tasks_completed |-> n,
         score_sum |-> SumSeq(profile.today_scores),
         successes |-> IF n = 0 THEN 0 ELSE profile.today_successes,
         duration_sum |-> SumSeq(profile.today_durations)]

\* record_performance(self.name, profile.get_today_snapshot()); run returns
RecordPerformance(w) ==
    /\ apc[w] = "saved"
    /\ apc' = [apc EXCEPT ![w] = "idle"]
    /\ perfHistory' = Append(perfHistory, GetTodaySnapshot(local[w]))
    /\ dayRuns' = Append(dayRuns, runResult[w])
    /\ UNCHANGED <<profileRow, runResult, local>>
    /\ UNCHANGED otherA

AgentStep(w) ==
    \/ \E r \in RunResults : AgentRun(w, r)
    \/ LoadProfile(w)
    \/ RecordTaskCall(w)
    \/ SaveProfile(w)
    \/ RecordPerformance(w)

\* the agent is run by one caller at a time
ANextSeq == AgentStep(1)

\* the agent is run from several threads
ANext == \E w \in Workers : AgentStep(w)

\* ---------------------------------------- MasterOrchestrator._dispatch_parallel
\* parallel plans: two or more steps, each assigned to a registered agent
ParallelPlans == UNION {[1..n -> Agents] : n \in 2..MaxPlanSteps}

DInit ==
    /\ dState = "none"
    /\ dPlan = <<>>
    /\ dDone = {}
    /\ resultsMap = [a \in Agents |-> NoStep]
    /\ stepRuns = [k \in 1..MaxPlanSteps |-> 0]
    /\ aggregated = <<>>

\* _dispatch_parallel is entered: results_map = {}, every step is submitted
DispatchParallel(steps) ==
    /\ dState = "none"
    /\ dState' = "running"
    /\ dPlan' = steps
    /\ UNCHANGED <<dDone, resultsMap, stepRuns, aggregated>>
    /\ UNCHANGED otherD

\* run_step(step) has returned (agent_name, agent.run(step.task)) and
\* as_completed hands the future over: results_map[agent_name] = result
CollectStep(k) ==
    /\ dState = "running"
    /\ k \in DOMAIN dPlan
    /\ k \notin dDone
    /\ dDone' = dDone \cup {k}
    /\ stepRuns' = [stepRuns EXCEPT ![k] = @ + 1]
    /\ resultsMap' = [resultsMap EXCEPT ![dPlan[k]] = k]
    /\ UNCHANGED <<dState, dPlan, aggregated>>
    /\ UNCHANGED otherD

\* results = [{"agent": step.agent_name,
\*             "result": results_map.get(step.agent_name, "")} for step in plan.steps]
PlanOrderResults ==
    [k \in DOMAIN dPlan |-> [agent |-> dPlan[k], result |-> resultsMap[dPlan[k]]]]

\* _aggregate_simple: one block "=== agent ===\nresult" per element, in order
AggregateSimple(results) == results

\* every future is collected: build results in plan order and aggregate them
DispatchReturn ==
    /\ dState = "running"
    /\ dDone = DOMAIN dPlan
    /\ dState' = "done"
    /\ aggregated' = AggregateSimple(PlanOrderResults)
    /\ UNCHANGED <<dPlan, dDone, resultsMap, stepRuns>>
    /\ UNCHANGED otherD

DNext ==
    \/ \E steps \in ParallelPlans : DispatchParallel(steps)
    \/ \E k \in 1..MaxPlanSteps : CollectStep(k)
    \/ DispatchReturn

\* ---------------------------------------------------------- specifications
HQuiet == HInit /\ ~requireMed

\* ------------------------------------------------------- TaskPlanner.plan
\* _AGENT_KEYWORD_MAP, in the order _detect_agent scans it
AgentKeywordMap == <<"PROCESS_AGENT", "TALENT_AGENT", "KM_AGENT", "DECISION_AGENT">>

SupportedAgents == {"KM_AGENT", "PROCESS_AGENT", "TALENT_AGENT", "DECISION_AGENT"}

\* a text is the set of agents one of whose keywords it contains;
\* _detect_agent returns the first agent of the map with a keyword in the
\* text, KM_AGENT when there is none
DetectAgent(text) ==
    IF \E i \in DOMAIN AgentKeywordMap : AgentKeywordMap[i] \in text
    THEN AgentKeywordMap[CHOOSE i \in DOMAIN AgentKeywordMap :
                            /\ AgentKeywordMap[i] \in text
                            /\ \A j \in 1..(i - 1) : AgentKeywordMap[j] \notin text]
    ELSE "KM_AGENT"

PartTexts == {{}, {"DECISION_AGENT"}, {"DECISION_AGENT", "PROCESS_AGENT"}}

\* a task text: whether it holds a word of _COMPOUND_TRIGGERS, whether it
\* holds a word of _SEQUENTIAL_KEYWORDS (all of them are triggers), and the
\* non-empty clauses _split_task_text cuts it into
PlannerTasks ==
    {t \in [triggers : BOOLEAN, sequential : BOOLEAN,
            parts : UNION {[1..n -> PartTexts] : n \in 0..MaxParts}] :
        t.sequential => t.triggers}

WholeText(task) == UNION {task.parts[k] : k \in DOMAIN task.parts}

\* what the provider gives _llm_based_plan: no usable provider, chat raising,
\* an empty response, text that is not JSON, or a JSON object with a "mode"
\* and n items of which item number notDict (0: none) is not an object
PlannerAnswers ==
    [kind : {"raises", "empty", "bad_json"}]
      \cup {a \in [kind : {"json"},
                   mode : {"sequential", "Sequential", "parallel", "other",
                           "missing", "null"},
                   n : 0..MaxParts, notDict : 0..MaxParts,
                   agent : {"PROCESS_AGENT", "UNKNOWN_AGENT", "missing"}] :
               a.notDict <= a.n}

PlanIds == {<<"PLAN", n>> : n \in 1..NumPlanIds}

NoPlan == [plan_id |-> <<"PLAN", 0>>, execution_mode |-> "none", sub_tasks |-> <<>>]

StId(i) == <<"ST", i>>

Truncate_None(s) == s

\* s[:5]
Truncate(s) == IF Len(s) > MaxSubTasks THEN SubSeq(s, 1, MaxSubTasks) ELSE s

\* depends = [prev_id] if (mode == SEQUENTIAL and prev_id) else []
Depends(mode, i) ==
    IF mode = "sequential" /\ i > 1 THEN <<StId(i - 1)>> ELSE <<>>

SubTask(planId, i, agent, depends) ==
    [sub_task_id |-> StId(i), parent_task_id |-> planId, agent_name |-> agent,
     priority |-> i, depends_on |-> depends]

PInit ==
    /\ pState = "idle"
    /\ pTask = [triggers |-> FALSE, sequential |-> FALSE, parts |-> <<>>]
    /\ pVia = "none"
    /\ planResult = NoPlan

\* plan(task, llm_provider): the LLM planner when a provider is available,
\* the rule-based one otherwise; the planner keeps nothing between calls, so
\* one call from the initial state stands for every call
PlanCall ==
    /\ pState = "idle"
    /\ \E task \in PlannerTasks, available \in BOOLEAN :
          /\ pState' = IF available THEN "llm" ELSE "rules"
          /\ pTask' = task
    /\ pVia' = "none"
    /\ planResult' = NoPlan
    /\ UNCHANGED otherP

IsComplexTask(task) == task.triggers \/ Len(task.parts) >= 2

\* mode_str == "sequential" after lower()
LlmMode(mode) ==
    IF mode \in {"sequential", "Sequential"} THEN "sequential" ELSE "parallel"

LlmAgent(agent) ==
    IF agent \in SupportedAgents THEN agent ELSE "KM_AGENT"

\* the statements of _llm_based_plan that raise: an empty response, json.loads,
\* None.lower(), item.get on an item of the first five that is not an object,
\* and the final check for an empty list
LlmRaises(a) ==
    \/ a.kind \in {"raises", "empty", "bad_json"}
    \/ a.kind = "json" /\ a.mode = "null"
    \/ a.kind = "json" /\ a.notDict \in 1..MaxSubTasks
    \/ a.kind = "json" /\ a.n = 0

LlmBasedPlan ==
    /\ pState = "llm"
    /\ \E a \in PlannerAnswers :
          IF LlmRaises(a)
          THEN \* except Exception: pass
               /\ pState' = "rules"
               /\ UNCHANGED <<pTask, pVia, planResult>>
          ELSE \E id \in PlanIds :
                  LET items == Truncate([i \in 1..a.n |-> a.agent])
                      mode == LlmMode(a.mode)
                  IN  /\ planResult' =
                             [plan_id |-> id, execution_mode |-> mode,
                              sub_tasks |->
                                 [i \in DOMAIN items |->
                                     SubTask(id, i, LlmAgent(items[i]),
                                             Depends(mode, i))]]
                      /\ pVia' = "llm"
                      /\ pState' = "returned"
                      /\ UNCHANGED pTask
    /\ UNCHANGED otherP

RuleBasedPlan ==
    /\ pState = "rules"
    /\ \E id \in PlanIds :
          LET single == <<SubTask(id, 1, DetectAgent(WholeText(pTask)), <<>>)>>
              mode == IF pTask.sequential THEN "sequential" ELSE "parallel"
              parts == Truncate(pTask.parts)
          IN  planResult' =
                 IF ~IsComplexTask(pTask)
                 THEN [plan_id |-> id, execution_mode |-> "sequential",
                       sub_tasks |-> single]
                 ELSE IF Len(pTask.parts) < 2
                 THEN [plan_id |-> id, execution_mode |-> mode, sub_tasks |-> single]
                 ELSE [plan_id |-> id, execution_mode |-> mode,
                       sub_tasks |->
                          [i \in DOMAIN parts |->
                              SubTask(id, i, DetectAgent(parts[i]), Depends(mode, i))]]
    /\ pVia' = "rules"
    /\ pState' = "returned"
    /\ UNCHANGED pTask
    /\ UNCHANGED otherP

PNext ==
    \/ PlanCall
    \/ LlmBasedPlan
    \/ RuleBasedPlan


\* ------------------------------------------- TaskPlanner._execute_sequential
\* a result: nothing (None), the text an executor returned, or the text of an
\* error; texts are told apart by the sub-task they come from and their length
NoOutput == [kind |-> "none", from |-> 0, len |-> 0]

SubTaskIdx == 1..MaxExecSubTasks

\* sequential plans as the planner builds them: sub-task i depends on i - 1
SequentialPlans ==
    UNION {{[i \in 1..n |-> SubTask(<<"PLAN", 1>>, i, agents[i], Depends("sequential", i))] :
               agents \in [1..n -> Agents]} : n \in 1..MaxExecSubTasks}

\* what an executor does when called: it raises, or returns a text of this length
ExecutorOutcomes ==
    {[raises |-> TRUE, len |-> 0], [raises |-> FALSE, len |-> 0],
     [raises |-> FALSE, len |-> 150], [raises |-> FALSE, len |-> 250]}

TInit ==
    /\ exState = "none"
    /\ exPlan = <<>>
    /\ executors = {}
    /\ exIdx = 0
    /\ stStatus = [k \in SubTaskIdx |-> "PENDING"]
    /\ stResult = [k \in SubTaskIdx |-> NoOutput]
    /\ prevResult = NoOutput
    /\ stContext = [k \in SubTaskIdx |-> NoOutput]
    /\ invOrder = <<>>
    /\ planSuccess = FALSE

\* execute(plan, agent_executors) on a sequential plan
ExecuteSequential(plan, registered) ==
    /\ exState = "none"
    /\ exState' = "running"
    /\ exPlan' = plan
    /\ executors' = registered
    /\ exIdx' = 1
    /\ UNCHANGED <<stStatus, stResult, prevResult, stContext, invOrder, planSuccess>>
    /\ UNCHANGED otherT

\* `if prev_result:` -- None and "" are both false
Truthy(result) == result.kind # "none" /\ result.len > 0

\* prev_result[:_MAX_PREV_RESULT_LENGTH]
PrevPrefix(result) ==
    IF result.len > MAX_PREV_RESULT_LENGTH
    THEN [result EXCEPT !.len = MAX_PREV_RESULT_LENGTH]
    ELSE result

\* the sub-task's executor is missing: FAILED, continue (prev_result is kept)
ExecutorMissing ==
    /\ exState = "running"
    /\ exIdx \in DOMAIN exPlan
    /\ stStatus[exIdx] = "PENDING"
    /\ exPlan[exIdx].agent_name \notin executors
    /\ stStatus' = [stStatus EXCEPT ![exIdx] = "FAILED"]
    /\ stResult' = [stResult EXCEPT ![exIdx] = [kind |-> "error", from |-> exIdx, len |-> 20]]
    /\ exIdx' = exIdx + 1
    /\ UNCHANGED <<exState, exPlan, executors, prevResult, stContext, invOrder, planSuccess>>
    /\ UNCHANGED otherT

\* st.status = "RUNNING"; task_input is built and the executor is called
ExecutorCall ==
    /\ exState = "running"
    /\ exIdx \in DOMAIN exPlan
    /\ stStatus[exIdx] = "PENDING"
    /\ exPlan[exIdx].agent_name \in executors
    /\ stStatus' = [stStatus EXCEPT ![exIdx] = "RUNNING"]
    /\ stContext' = [stContext EXCEPT ![exIdx] =
                        IF Truthy(prevResult) THEN PrevPrefix(prevResult) ELSE NoOutput]
    /\ invOrder' = Append(invOrder, exIdx)
    /\ UNCHANGED <<exState, exPlan, executors, exIdx, stResult, prevResult, planSuccess>>
    /\ UNCHANGED otherT

PrevAfter_Kept(status, result, prev) == prev

\* prev_result = st.result after COMPLETED, None after an exception
PrevAfter(status, result, prev) == IF status = "COMPLETED" THEN result ELSE NoOutput

\* the executor returns or raises
ExecutorReturn(outcome) ==
    /\ exState = "running"
    /\ exIdx \in DOMAIN exPlan
    /\ stStatus[exIdx] = "RUNNING"
    /\ LET status == IF outcome.raises THEN "FAILED" ELSE "COMPLETED"
           result == IF outcome.raises
                     THEN [kind |-> "error", from |-> exIdx, len |-> 20]
                     ELSE [kind |-> "output", from |-> exIdx, len |-> outcome.len]
       IN  /\ stStatus' = [stStatus EXCEPT ![exIdx] = status]
           /\ stResult' = [stResult EXCEPT ![exIdx] = result]
           /\ prevResult' = PrevAfter(status, result, prevResult)
    /\ exIdx' = exIdx + 1
    /\ UNCHANGED <<exState, exPlan, executors, stContext, invOrder, planSuccess>>
    /\ UNCHANGED otherT

\* plan.success = all(st.status == "COMPLETED" for st in plan.sub_tasks)
ExecuteDone ==
    /\ exState = "running"
    /\ exIdx > Len(exPlan)
    /\ exState' = "done"
    /\ planSuccess' = \A k \in DOMAIN exPlan : stStatus[k] = "COMPLETED"
    /\ UNCHANGED <<exPlan, executors, exIdx, stStatus, stResult, prevResult, stContext,
                   invOrder>>
    /\ UNCHANGED otherT

TNext ==
    \/ \E plan \in SequentialPlans, registered \in SUBSET Agents :
          ExecuteSequential(plan, registered)
    \/ ExecutorMissing
    \/ ExecutorCall
    \/ \E outcome \in ExecutorOutcomes : ExecutorReturn(outcome)
    \/ ExecuteDone

InitQueue == QInit /\ HQuiet /\ EInit /\ MInit /\ SInit /\ RInit /\ WInit /\ XInit /\ LInit /\ DInit /\ PInit /\ KInit /\ AInit /\ TInit /\ GInit

InitHitl == QInit /\ HInit /\ EInit /\ MInit /\ SInit /\ RInit /\ WInit /\ XInit /\ LInit /\ DInit /\ PInit /\ KInit /\ AInit /\ TInit /\ GInit

SpecQueue == InitQueue /\ [][QNext]_vars

SpecCancel == InitQueue /\ [][QNextCall]_vars

SpecNotify == InitHitl /\ [][NNext]_vars

SpecFaults == InitQueue /\ [][FNext]_vars

SpecStop == InitQueue /\ [][QNextStop]_vars

\* start() and every worker thread keep being scheduled
SpecLive ==
    /\ InitQueue
    /\ [][QNext]_vars
    /\ WF_vars(Start)
    /\ \A w \in Workers : WF_vars(WorkerStep(w))

\* start() and every worker thread keep being scheduled
SpecRecovery ==
    /\ InitQueue
    /\ [][FNext]_vars
    /\ WF_vars(Start)
    /\ \A w \in Workers : WF_vars(WorkerStep(w))

SpecHitl == InitHitl /\ [][HNext]_vars

SpecHitlCall == InitHitl /\ [][HNextCall]_vars

SpecEpcc == InitQueue /\ [][ENext]_vars

SpecMemory == InitQueue /\ [][MNext]_vars

SpecStore == InitQueue /\ [][SNext]_vars

SpecRisk == InitQueue /\ [][RNext]_vars

SpecWorkflow == InitQueue /\ [][WNext]_vars

SpecExecute == InitQueue /\ [][XNext]_vars

SpecLoop == InitQueue /\ [][LNext]_vars

SpecDispatch == InitQueue /\ [][DNext]_vars

SpecPlanner == InitQueue /\ [][PNext]_vars

SpecParallel == InitQueue /\ [][KNext]_vars

SpecProfileSeq == InitQueue /\ [][ANextSeq]_vars

SpecProfile == InitQueue /\ [][ANext]_vars

SpecSequential == InitQueue /\ [][TNext]_vars

SpecPool == InitQueue /\ [][GNext]_vars

\* every agent call returns, so the loop of execute keeps taking rounds
SpecTerminate ==
    /\ InitQueue
    /\ [][XNextFrom]_vars
    /\ WF_vars(Round)
    /\ WF_vars(ReturnFrom)

\* ------------------------------------------------------- TaskQueue claims
\* positions at which a worker holds a task returned by _dequeue_next
ExecPcs == {"exec", "complete", "retry_count", "backoff", "requeue", "fail"}

Executing(t) == {w \in Workers : cur[w] = t /\ pc[w] \in ExecPcs}

\* C2: under every interleaving of the workers each PENDING task is claimed by
\* at most one worker: a RUNNING task is held by exactly one worker, and no task
\* is ever being executed by two workers at the same time.
C2_SingleClaim ==
    \A t \in DOMAIN tasks :
        /\ Cardinality(Executing(t)) <= 1
        /\ tasks[t].status = "running" =>
             Cardinality({w \in Workers : cur[w] = t
                                          /\ pc[w] \in ExecPcs \cup {"verify"}}) = 1

\* two workers execute two different tasks at the same time
C2_Witness ==
    \E w1, w2 \in Workers :
        /\ pc[w1] = "exec" /\ pc[w2] = "exec"
        /\ cur[w1] # cur[w2]

\* C3: whenever a worker claims a task (PENDING -> RUNNING), the claimed task is
\* the PENDING task with the smallest (priority, created_at): no other PENDING
\* task has a lower priority number, or the same priority and an earlier
\* created_at.
C3_ClaimsSmallest ==
    [][\A t \in DOMAIN tasks :
          (tasks[t].status = "pending" /\ tasks'[t].status = "running") =>
             \A j \in PendingIds : ~OrderBefore(tasks[j], tasks[t])]_vars

\* C4: a task whose executor raises on every invocation and whose max_retries
\* is K is invoked exactly K+1 times and then is FAILED with retry_count = K+1;
\* no task is invoked more than K+1 times, nor made PENDING again after K+1.
C4_RetryBudget ==
    \A t \in DOMAIN tasks :
        LET K == tasks[t].max_retries IN
        /\ invoked[t] <= K + 1
        /\ tasks[t].status = "failed" =>
             invoked[t] = K + 1 /\ tasks[t].retry_count = K + 1
        /\ invoked[t] = K + 1 =>
             tasks[t].status \in {"running", "completed", "failed"}

\* a task has failed for good
C4_Witness ==
    \E t \in DOMAIN tasks :
        tasks[t].status = "failed" /\ tasks[t].error # NoResult

\* C5: cancel(task_id) returns true exactly when the task was PENDING at the
\* call, and then sets that status to CANCELLED; for any other status, or an
\* unknown id, it returns false and leaves every task row unchanged.
C5_CancelScope ==
    [][(cancelRet' # cancelRet \/ cancelOk' # cancelOk) =>
          LET t == cancelRet'.id IN
          /\ cancelRet'.ret = (t \in DOMAIN tasks /\ tasks[t].status = "pending")
          /\ cancelRet'.ret => tasks' = [tasks EXCEPT ![t].status = "cancelled"]
          /\ ~cancelRet'.ret => tasks' = tasks]_vars

\* one cancel succeeded, and the last cancel was refused for a RUNNING task
C5_Witness ==
    /\ cancelOk # {}
    /\ cancelRet.id \in DOMAIN tasks
    /\ ~cancelRet.ret
    /\ tasks[cancelRet.id].status = "running"

\* C6: after cancel returned true for a task, under every interleaving with the
\* workers the task's executor is never invoked afterwards and its status never
\* becomes RUNNING or COMPLETED.
C6_CancelledStaysOut ==
    [][\A t \in cancelOk :
          /\ invoked'[t] = invoked[t]
          /\ tasks'[t].status \notin {"running", "completed"}]_vars

\* a task made PENDING again by a retry was cancelled between a worker's select
\* and its claiming update, and the worker has issued the update
C6_Witness ==
    \E w \in Workers :
        /\ pc[w] = "verify"
        /\ cur[w] \in cancelOk
        /\ tasks[cur[w]].retry_count > 0

\* C16: after the i-th failure of a task (retry_count = i <= max_retries) the
\* worker sleeps 2^(i-1) seconds, so the successive backoff delays of a task are
\* 1, 2, 4, ..., each double the previous; the task becomes PENDING again only
\* after that sleep has ended.
C16_Backoff ==
    /\ [](\A t \in DOMAIN tasks :
            /\ Len(slept[t]) <= tasks[t].max_retries
            /\ Len(slept[t]) >= 1 => slept[t][1] = 1
            /\ \A i \in 2..Len(slept[t]) : slept[t][i] = 2 * slept[t][i - 1]
            /\ \A w \in Workers :
                  (cur[w] = t /\ pc[w] = "requeue") =>
                     Len(slept[t]) = tasks[t].retry_count)
    /\ [][\A t \in DOMAIN tasks :
            (tasks[t].status = "running" /\ tasks'[t].status = "pending") =>
               /\ tasks[t].retry_count \in 1..tasks[t].max_retries
               /\ Len(slept[t]) = tasks[t].retry_count]_vars

\* a task was made PENDING again after its third failure and a sleep of 4 s
C16_Witness ==
    \E t \in DOMAIN tasks :
        /\ tasks[t].status = "pending"
        /\ tasks[t].retry_count = 3
        /\ slept[t] = <<1, 2, 4>>

TaskTerminal == {"completed", "failed", "cancelled"}

\* C17: whenever a task that has a callback_url reaches a terminal status, a
\* webhook POST is dispatched for it carrying the task_id, status, result,
\* error and completed_at of that terminal state.
C17_WebhookOnTerminal ==
    [][\A t \in DOMAIN tasks :
          (/\ tasks[t].callback_url # NoUrl
           /\ tasks[t].status \notin TaskTerminal
           /\ tasks'[t].status \in TaskTerminal) =>
             hooks'[t] = Append(hooks[t],
                                [task_id |-> t,
                                 status |-> tasks'[t].status,
                                 result |-> tasks'[t].result,
                                 error |-> tasks'[t].error,
                                 completed_at |-> tasks'[t].completed_at])]_vars

\* C18: a failed notification never changes persisted state: whatever the POST
\* of a task webhook does, the task rows stay as they are; whatever the approval
\* notifier's POST does, check_and_gate completes and stores the same request,
\* except for webhook_sent, which is true iff the notification was delivered.
C18_NotifierFrame ==
    [][/\ (posting' # posting /\ posting' \subseteq posting) =>
             tasks' = tasks /\ hooks' = hooks
       /\ gateSent' # gateSent =>
             LET n == Len(requests) + 1 IN
             /\ Len(requests') = n
             /\ \A r \in DOMAIN requests : requests'[r] = requests[r]
             /\ requests'[n].webhook_sent = (gateSent' = "ok")
             /\ requests'[n] =
                   [ApprovalRequest(Upper(gateArg'), FALSE)
                       EXCEPT !.webhook_sent = (gateSent' = "ok")]]_vars

\* a HIGH-risk request whose notification timed out is PENDING with
\* webhook_sent false, next to one whose notification was delivered
C18_Witness ==
    /\ gateSent = "timeout"
    /\ Len(requests) >= 2
    /\ requests[Len(requests)].status = "PENDING"
    /\ ~requests[Len(requests)].webhook_sent
    /\ \E r \in DOMAIN requests :
          requests[r].status = "PENDING" /\ requests[r].webhook_sent

\* a RUNNING row no worker thread holds
Stale(t) ==
    /\ t \in DOMAIN tasks
    /\ tasks[t].status = "running"
    /\ \A w \in Workers : cur[w] # t

\* C19: a task left in RUNNING by a worker that crashed or was abandoned does
\* not stay RUNNING forever: from a stopped queue holding such a row, start()
\* and the workers lead to the row being PENDING again or in a terminal status.
C19_StaleRecovered ==
    \A t \in TaskIds :
        (Stale(t) /\ ~running) ~>
            (t \in DOMAIN tasks /\ tasks[t].status \in {"pending"} \cup TaskTerminal)

\* C20: a database error raised while a worker dequeues a task or writes a
\* task's status, retry count or result does not terminate the worker: no
\* worker thread of a started queue is ever dead.
C20_WorkerSurvives == \A w \in Workers : pc[w] # "dead"

\* C21: with the workers running, finitely many tasks and an executor that
\* returns or raises, every enqueued task eventually reaches a terminal status
\* (COMPLETED or FAILED unless it was cancelled); a task whose executor returns
\* ends COMPLETED with the returned output as its result.
C21_Terminates ==
    /\ \A t \in TaskIds :
          (t \in DOMAIN tasks) ~>
             (t \in DOMAIN tasks /\ tasks[t].status \in TaskTerminal)
    /\ [](\A t \in DOMAIN tasks :
             /\ tasks[t].status = "completed" =>
                   tasks[t].result = "output" /\ invoked[t] >= 1
             /\ tasks[t].status = "failed" =>
                   invoked[t] = tasks[t].max_retries + 1)
    /\ [][\A w \in Workers :
             (pc[w] = "complete" /\ pc'[w] # "complete") =>
                /\ tasks'[cur[w]].status = "completed"
                /\ tasks'[cur[w]].result = "output"]_vars

\* every enqueued task is terminal: one COMPLETED after two failed attempts,
\* another COMPLETED at once
C21_Witness ==
    /\ Len(tasks) = MaxTasks
    /\ \A t \in DOMAIN tasks : tasks[t].status = "completed"
    /\ \E t \in DOMAIN tasks : tasks[t].retry_count = 2 /\ invoked[t] = 3
    /\ \E t \in DOMAIN tasks : tasks[t].retry_count = 0 /\ invoked[t] = 1

TaskEdges ==
    {<<"pending", "running">>, <<"running", "completed">>,
     <<"running", "pending">>, <<"running", "failed">>,
     <<"pending", "cancelled">>}

\* C7: a task's status only changes along PENDING->RUNNING, RUNNING->COMPLETED,
\* RUNNING->PENDING (retries remaining), RUNNING->FAILED (retries exhausted) and
\* PENDING->CANCELLED; COMPLETED, FAILED and CANCELLED are never left; a new row
\* is PENDING.
C7_Lifecycle ==
    [][/\ \A t \in DOMAIN tasks :
             LET a == tasks[t].status
                 b == tasks'[t].status IN
             a # b =>
                /\ <<a, b>> \in TaskEdges
                /\ (a = "running" /\ b = "pending") =>
                      tasks[t].retry_count \in 1..tasks[t].max_retries
                /\ b = "failed" => tasks[t].retry_count > tasks[t].max_retries
       /\ \A t \in DOMAIN tasks' \ DOMAIN tasks :
             tasks'[t].status = "pending"]_vars

\* a task completed after a failed attempt, and another one was cancelled
C7_Witness ==
    \E t, u \in DOMAIN tasks :
        /\ tasks[t].status = "completed" /\ tasks[t].retry_count > 0
        /\ tasks[u].status = "cancelled"

\* ----------------------------------------------------- HITLManager claims
\* C8: approval resolution is monotone: once a request has a terminal status
\* (APPROVED, REJECTED, TIMEOUT or AUTO_APPROVED), no later resolve or
\* expire_timeouts call changes its status.
C8_Monotone ==
    [][\A r \in DOMAIN requests :
          requests[r].status \in TerminalStatus =>
             requests'[r].status = requests[r].status]_vars

\* the requests an expire_timeouts call that saw the clock at `t` has to expire
Overdue(t) ==
    {r \in DOMAIN requests :
        /\ requests[r].status = "PENDING"
        /\ requests[r].created_at + requests[r].timeout_hours <= t}

\* C9: expire_timeouts sets to TIMEOUT exactly the requests that are PENDING and
\* whose created_at + timeout_hours <= now, returns exactly their ids, and
\* leaves every other request (not yet overdue, or already terminal) unchanged.
C9_ExpireExact ==
    [][(epc = "update" /\ epc' = "idle") =>
          /\ eExpired = Overdue(eNow)
          /\ \A r \in DOMAIN requests :
                requests'[r] = IF r \in Overdue(eNow)
                               THEN [requests[r] EXCEPT !.status = "TIMEOUT"]
                               ELSE requests[r]]_vars

\* C23: is_approved(id) is true iff a request with that id exists and its
\* current status is APPROVED or AUTO_APPROVED; it is false for PENDING,
\* REJECTED and TIMEOUT requests and for unknown ids.
C23_IsApproved ==
    /\ [](\A id \in 1..MaxRequests :
             IsApproved(id) <=>
                (id \in DOMAIN requests
                   /\ requests[id].status \in {"APPROVED", "AUTO_APPROVED"}))
    /\ [][(hcall'.op = "is_approved" /\ hcall' # hcall) =>
             LET id == hcall'.id IN
             /\ requests' = requests
             /\ hcall'.approved <=>
                   (id \in DOMAIN requests
                      /\ requests[id].status \in {"APPROVED", "AUTO_APPROVED"})
             /\ (id \notin DOMAIN requests
                   \/ requests[id].status \in {"PENDING", "REJECTED", "TIMEOUT"}) =>
                   ~hcall'.approved]_vars

\* is_approved has just answered true for an AUTO_APPROVED request, next to a
\* request that timed out and one id that is approved by a reviewer
C23_Witness ==
    /\ hcall.op = "is_approved"
    /\ hcall.approved
    /\ hcall.id \in DOMAIN requests
    /\ requests[hcall.id].status = "AUTO_APPROVED"
    /\ \E r \in DOMAIN requests : requests[r].status = "TIMEOUT" /\ ~IsApproved(r)

\* C24: resolve(id, APPROVE, by, note) on a PENDING request sets its status to
\* APPROVED, resolve(id, REJECT, ...) to REJECTED, recording resolved_by,
\* resolution_note and resolved_at and touching no other request; after any
\* sequence of check_and_gate, resolve and expire_timeouts calls
\* get_pending_requests returns exactly the requests whose status is PENDING.
C24_ResolveAndPending ==
    /\ [](GetPendingRequests =
             {r \in DOMAIN requests : requests[r].status = "PENDING"})
    /\ [][/\ (/\ hcall'.op = "resolve"
              /\ epc' = epc /\ hnow' = hnow /\ Len(requests') = Len(requests)
              /\ (hcall' # hcall \/ requests' # requests)
              /\ hcall'.id \in DOMAIN requests
              /\ requests[hcall'.id].status = "PENDING") =>
                /\ requests'[hcall'.id] =
                      [requests[hcall'.id] EXCEPT
                          !.status = IF hcall'.action = "approve"
                                     THEN "APPROVED" ELSE "REJECTED",
                          !.resolved_by = "admin",
                          !.resolution_note = "note",
                          !.resolved_at = Stamp]
                /\ \A r \in DOMAIN requests \ {hcall'.id} :
                      requests'[r] = requests[r]
          /\ (hcall'.op = "get_pending_requests" /\ hcall' # hcall) =>
                /\ requests' = requests
                /\ hcall'.pending =
                      {r \in DOMAIN requests : requests[r].status = "PENDING"}]_vars

\* get_pending_requests has just returned the one PENDING request, the other
\* having been rejected by a reviewer
C24_Witness ==
    /\ hcall.op = "get_pending_requests"
    /\ hcall.pending # {}
    /\ \E r \in DOMAIN requests :
          /\ requests[r].status = "REJECTED"
          /\ requests[r].resolved_by = "admin"
          /\ requests[r].resolution_note = "note"
          /\ r \notin hcall.pending
    /\ \A r \in hcall.pending : requests[r].status = "PENDING"

\* C29: when expire_timeouts runs concurrently with resolve on the same overdue
\* PENDING request, a request resolve has already set to APPROVED or REJECTED
\* is not overwritten with TIMEOUT, and the ids expire_timeouts returns are
\* exactly the requests it changed.
C29_ExpireResolveRace ==
    [][(epc = "update" /\ epc' = "idle") =>
          /\ \A r \in DOMAIN requests :
                requests[r].status \in {"APPROVED", "REJECTED"} =>
                   requests'[r].status = requests[r].status
          /\ eExpired = {r \in DOMAIN requests : requests'[r] # requests[r]}]_vars

\* C10: each check_and_gate call creates and persists exactly one new request,
\* AUTO_APPROVED for LOW, and for MEDIUM with the require-approval-for-MEDIUM
\* policy off, PENDING for HIGH, and for MEDIUM with the policy on; the risk
\* level is compared case-insensitively.
C10_GateStatus ==
    [][(Len(requests') # Len(requests) \/ gateArg' # gateArg) =>
          LET n == Len(requests) + 1 IN
          /\ Len(requests') = n
          /\ \A r \in DOMAIN requests : requests'[r] = requests[r]
          /\ gateArg' \in {"LOW", "low"} => requests'[n].status = "AUTO_APPROVED"
          /\ gateArg' \in {"MEDIUM", "Medium"} =>
                requests'[n].status =
                   IF requireMed THEN "PENDING" ELSE "AUTO_APPROVED"
          /\ gateArg' \in {"HIGH", "high"} => requests'[n].status = "PENDING"]_vars

\* with the policy on, a lower-case "low" was auto-approved after a
\* mixed-case "Medium" was gated PENDING
C10_Witness ==
    /\ requireMed
    /\ gateArg = "low"
    /\ Len(requests) >= 2
    /\ requests[Len(requests)].risk_level = "LOW"
    /\ requests[Len(requests)].status = "AUTO_APPROVED"
    /\ \E r \in DOMAIN requests :
          requests[r].risk_level = "MEDIUM" /\ requests[r].status = "PENDING"

\* ------------------------------------------------ EnterpriseHarness claims
\* C1: for every instruction assessed HIGH, neither run_epcc_cycle nor the
\* dispatcher's single-agent path invokes the executor while the instruction's
\* approval request is PENDING, REJECTED or TIMEOUT: the gate makes a request
\* for every assessed instruction, so an executed HIGH-risk run holds a request
\* that is APPROVED or AUTO_APPROVED.
C1_HitlSafety ==
    \A r \in DOMAIN runs :
        (runs[r].risk = "HIGH" /\ runs[r].executed) =>
           /\ runs[r].request_id \in DOMAIN requests
           /\ requests[runs[r].request_id].status \in {"APPROVED", "AUTO_APPROVED"}

\* C11: run_epcc_cycle on an instruction the gate leaves non-approved (a
\* HIGH-risk instruction) returns a SessionResult with success = false and
\* risk_level HIGH whose output names the approval request id, and a request
\* with that id exists in the gate with status PENDING.
C11_GatedResult ==
    \A r \in DOMAIN runs :
        (runs[r].pc = "done" /\ runs[r].risk = "HIGH") =>
           /\ ~runs[r].success
           /\ ~runs[r].executed
           /\ runs[r].request_id \in DOMAIN requests
           /\ requests[runs[r].request_id].status = "PENDING"

\* C25: if the executor raises, run_epcc_cycle does not propagate the
\* exception: it returns a SessionResult with success = false whose output
\* carries the failure reason, and the failed session is still evaluated and
\* committed exactly once.
C25_FailureCommitted ==
    /\ \A r \in DOMAIN runs :
          /\ runs[r].pc # "raised"
          /\ (runs[r].executed /\ ~runs[r].success) =>
                /\ runs[r].output = "failed: exc"
                /\ runs[r].pc \in {"commit", "done"}
          /\ (runs[r].pc = "done" /\ ~runs[r].success) =>
                /\ runs[r].evaluated
                /\ runs[r].commits = 1
                /\ \E i \in DOMAIN progressMd :
                      /\ progressMd[i].agent_name = runs[r].agent_name
                      /\ progressMd[i].task_id = runs[r].task_id
                      /\ progressMd[i].message =
                            SessionMessage(FALSE, runs[r].risk)
    /\ Len(progressMd) = Cardinality({r \in DOMAIN runs : runs[r].pc = "done"})
    /\ Len(logFile) = Len(progressMd)

\* a run whose executor raised has returned, next to one whose executor returned
C25_Witness ==
    /\ \E r \in DOMAIN runs :
          /\ runs[r].pc = "done" /\ runs[r].executed /\ ~runs[r].success
          /\ runs[r].commits = 1
    /\ \E r \in DOMAIN runs : runs[r].pc = "done" /\ runs[r].success

\* ---------------------------------------------------- SessionStore claims
\* the rows of the sessions table for one (agent_name, task_id)
RowsOf(k) ==
    {i \in DOMAIN sessions : <<sessions[i].agent_name, sessions[i].task_id>> = k}

\* C12: for every (agent_name, task_id), after any number of save_session calls
\* with that pair the sessions table holds exactly one row for the pair, and the
\* row's status, eval_score, risk_level and output are those of the last write;
\* saves with a different task_id do not affect it.
C12_IdempotentSave ==
    \A k \in Pairs :
        lastSaved[k] # NoRecord =>
           \E i \in DOMAIN sessions :
               /\ RowsOf(k) = {i}
               /\ sessions[i] = lastSaved[k]

\* ------------------------------------------------------- GitMemory claims
\* the PROGRESS.md lines of one (agent, task_id)
LinesOf(a, t) ==
    {i \in DOMAIN progressMd :
        progressMd[i].agent_name = a /\ progressMd[i].task_id = t}

\* the pairs commit_progress was called with: each call leaves a log line
Committed(a, t) ==
    \E i \in DOMAIN logFile : logFile[i].agent_name = a /\ logFile[i].task_id = t

\* C13: the progress log keeps at most one line per (agent, task_id): after
\* commit_progress or commit_session was called twice with the same agent and
\* task_id PROGRESS.md has exactly one line for the pair, while the same task_id
\* committed by two agents yields one line each.
C13_OneLinePerPair ==
    \A a \in Agents, t \in 1..2 :
        Committed(a, t) => Cardinality(LinesOf(a, t)) = 1

\* -------------------------------------------- SemanticRiskAssessor claims
\* an LLM answer that parses: a JSON object whose level is one of LOW, MEDIUM,
\* MED, HIGH in any case and whose confidence is a number
Parses(answer) ==
    /\ answer.kind = "json"
    /\ answer.level \in {"LOW", "low", "MED", "MEDIUM", "HIGH"}
    /\ answer.numeric

LlmSays(answer) ==
    CASE answer.level \in {"LOW", "low"} -> 0
      [] answer.level \in {"MED", "MEDIUM"} -> 1
      [] answer.level = "HIGH" -> 2

RuleSays(task) == IF task.high THEN 2 ELSE IF task.med THEN 1 ELSE 0

LevelRank == [LOW |-> 0, MEDIUM |-> 1, HIGH |-> 2]

\* C14: SemanticRiskAssessor.assess never returns a level below the rule-based
\* level under LOW < MEDIUM < HIGH: when the LLM answer parses with confidence
\* >= 0.8 the result is max(llm_level, rule_level); when the confidence is
\* below 0.8, the answer is empty or cannot be parsed, it is the rule level.
C14_Conservative ==
    \A i \in DOMAIN assessmentLog :
        LET e == assessmentLog[i]
            got == LevelRank[e.level]
        IN /\ got >= RuleSays(e.task)
           /\ IF Parses(e.answer) /\ e.answer.confidence >= 80
              THEN got = IF LlmSays(e.answer) >= RuleSays(e.task)
                         THEN LlmSays(e.answer) ELSE RuleSays(e.task)
              ELSE got = RuleSays(e.task)

\* a confident LLM answer "low" for an instruction with a HIGH keyword came
\* out HIGH
C14_Witness ==
    \E i \in DOMAIN assessmentLog :
        LET e == assessmentLog[i] IN
        /\ e.task.high
        /\ e.answer.kind = "json" /\ e.answer.level = "low"
        /\ e.answer.numeric /\ e.answer.confidence = 95
        /\ e.level = "HIGH" /\ e.mode = "llm"

\* -------------------------------------------------- WorkflowEngine claims
\* C15: a condition whose syntax tree contains any node outside the allowlist
\* (a call, attribute access, subscript, comprehension or lambda) is never
\* evaluated: the CONDITION step records success = false and no host code runs;
\* a condition that fails to parse or references an undefined variable also
\* yields false.
C15_SafeConditions ==
    \A i \in DOMAIN stepResults :
        LET r == stepResults[i]
            c == r.condition
        IN /\ (c.kind = "tree" /\ c.nodes \cap UnsafeNodes # {}) =>
                 ~r.evaluated /\ ~r.success
           /\ c.kind = "syntax_error" => ~r.evaluated /\ ~r.success
           /\ (c.kind = "tree" /\ c.outcome = "name_error") => ~r.success

\* a condition with a call in it that would have evaluated to true was
\* rejected
C15_Witness ==
    \E i \in DOMAIN stepResults :
        LET r == stepResults[i] IN
        /\ r.condition.kind = "tree"
        /\ "Call" \in r.condition.nodes
        /\ r.condition.outcome = "true"
        /\ ~r.success /\ r.output = "condition_failed"

\* ------------------------------------------- WorkflowEngine.execute claims
\* C26: execute runs the workflow's steps in list order; after a step that
\* succeeded and defines on_success (failed and defines on_failure) the target
\* step is executed immediately next unless it is already scheduled later in
\* the queue; the workflow's success is true iff at least one step ran and
\* every recorded step result succeeded.
C26_ExecuteOrder ==
    /\ [](wfState # "none" =>
             /\ wi = Len(wfResults) + 1
             /\ \A k \in DOMAIN wfResults :
                   k <= Len(stepQueue) /\ wfResults[k].step_id = stepQueue[k]
             /\ \A a, b \in DOMAIN wf :
                   a < b => \E i, j \in DOMAIN stepQueue :
                               i < j /\ stepQueue[i] = a /\ stepQueue[j] = b
             /\ wfState = "done" =>
                   /\ Len(wfResults) = Len(stepQueue)
                   /\ wfSuccess <=>
                         (/\ Len(wfResults) >= 1
                          /\ \A k \in DOMAIN wfResults : wfResults[k].success))
    /\ [][Len(wfResults') = Len(wfResults) + 1 =>
             LET step == wf[stepQueue[wi]]
                 ok == wfResults'[wi].success
                 target == IF ok THEN step.on_success ELSE step.on_failure
             IN IF /\ target \in DOMAIN wf
                   /\ \A k \in (wi + 1)..Len(stepQueue) : stepQueue[k] # target
                THEN /\ Len(stepQueue') = Len(stepQueue) + 1
                     /\ stepQueue'[wi + 1] = target
                     /\ \A k \in 1..wi : stepQueue'[k] = stepQueue[k]
                     /\ \A k \in (wi + 1)..Len(stepQueue) :
                           stepQueue'[k + 1] = stepQueue[k]
                ELSE stepQueue' = stepQueue]_vars

\* a two-step workflow whose second step names the first as on_success has
\* returned success after running step 1, step 2 and step 1 again
C26_Witness ==
    /\ wfState = "done"
    /\ wfSuccess
    /\ Len(wf) = 2
    /\ wf[2].on_success = 1
    /\ Len(wfResults) = 3
    /\ wfResults[3].step_id = 1

\* C30: a LOOP step invokes its agent at most max_iterations times, stops after
\* the first round whose exit test holds (the step's condition, or score >=
\* 0.75 when it has none), and reports success iff it stopped because the exit
\* test held; after the step ctx["iteration"] is the number of rounds performed.
C30_LoopExit ==
    /\ loopCalls <= loopStep.max_iterations
    /\ loopBroke => loopIter = loopCalls
    /\ loopState = "done" =>
          /\ lastResult <=> loopBroke
          /\ ~loopBroke => loopCalls = loopStep.max_iterations
          /\ loopCalls >= 1 => ctxIter = loopCalls


\* ----------------------------------------------- MasterOrchestrator claims
\* C27: for a parallel plan the dispatcher runs every step once, and the
\* aggregated output lists the steps in plan order, each block carrying the
\* agent name of that step and the result of that step's own execution, also
\* when two steps are assigned to the same agent.
C27_ParallelAggregate ==
    dState = "done" =>
       /\ \A k \in DOMAIN dPlan : stepRuns[k] = 1
       /\ Len(aggregated) = Len(dPlan)
       /\ \A k \in DOMAIN dPlan :
             /\ aggregated[k].agent = dPlan[k]
             /\ aggregated[k].result = k

\* C28: every plan TaskPlanner.plan returns, from the rules or from the LLM,
\* has between one and five sub-tasks; their sub_task_ids are pairwise
\* distinct and each parent_task_id is the plan's id; in a sequential plan
\* every sub-task after the first depends on exactly its predecessor, and in
\* a parallel plan every depends_on is empty
C28_PlanShape ==
    pState = "returned" =>
       LET st == planResult.sub_tasks
       IN  /\ Len(st) \in 1..5
           /\ \A i, j \in DOMAIN st :
                 st[i].sub_task_id = st[j].sub_task_id => i = j
           /\ \A i \in DOMAIN st : st[i].parent_task_id = planResult.plan_id
           /\ planResult.plan_id \in PlanIds
           /\ planResult.execution_mode \in {"sequential", "parallel"}
           /\ planResult.execution_mode = "sequential" =>
                 \A i \in DOMAIN st :
                    i > 1 => st[i].depends_on = <<st[i - 1].sub_task_id>>
           /\ planResult.execution_mode = "parallel" =>
                 \A i \in DOMAIN st : st[i].depends_on = <<>>

\* a sequential plan of five sub-tasks came back for a task of six clauses
C28_Witness ==
    /\ pState = "returned"
    /\ pVia = "rules"
    /\ Len(pTask.parts) = 6
    /\ planResult.execution_mode = "sequential"
    /\ Len(planResult.sub_tasks) = 5
    /\ planResult.sub_tasks[5].depends_on = <<StId(4)>>

\* ------------------------------------------ WorkflowEngine PARALLEL claims
\* C31: a PARALLEL step runs each branch exactly once on its own copy of the
\* context: every branch finds the context as it was when the step was
\* entered, and the workflow's context keeps its keys but for the step's own
\* results; the step succeeds iff every branch succeeded; the branch results
\* are stored under _parallel_results, and the MERGE step that follows emits
\* them
C31_ParallelStep ==
    /\ parState \in {"returned", "merged"} =>
          /\ \A k \in DOMAIN parSteps : branchRuns[k] = 1
          /\ Len(subResults) = Len(parSteps)
          /\ \A k \in DOMAIN parSteps : ctxSeen[k] = ctxAtCall
          /\ ctxs[0].iteration = ctxAtCall.iteration
          /\ ctxs[0].eval_score = ctxAtCall.eval_score
          /\ parResult.success = (\A i \in DOMAIN subResults : subResults[i].success)
          /\ ctxs[0].parallel_results = subResults
    /\ parState = "merged" => mergeOutput = Join(subResults)

\* a LOOP branch wrote its context before a CONDITION branch read its own,
\* one branch failed, and the MERGE step has run
C31_Witness ==
    /\ parState = "merged"
    /\ Len(parSteps) = 2
    /\ parSteps[1].type = "LOOP"
    /\ parSteps[2].type = "CONDITION"
    /\ ctxAtCall.iteration = NoIter
    /\ ctxs[1].iteration = 1
    /\ Len(subResults) = 2
    /\ subResults[1].success
    /\ ~subResults[2].success
    /\ ~parResult.success

\* ------------------------------------------------- AgentProfile claims
\* C32: after the agent has completed n tasks today, one after the other,
\* the snapshot recorded last reports tasks_completed = n and the score sum,
\* success count and duration sum of those n tasks
C32_DailySnapshot ==
    (apc[1] = "idle" /\ dayRuns # <<>>) =>
       LET snap == perfHistory[Len(perfHistory)]
       IN  /\ snap.tasks_completed = Len(dayRuns)
           /\ snap.score_sum = SumSeq([i \in DOMAIN dayRuns |-> dayRuns[i].score])
           /\ snap.successes =
                 Cardinality({i \in DOMAIN dayRuns : dayRuns[i].score >= SuccessThreshold})
           /\ snap.duration_sum = SumSeq([i \in DOMAIN dayRuns |-> dayRuns[i].duration])

\* C39: when the agent has completed N runs, also from several threads at
\* once, the stored total_tasks_completed has grown by exactly N
C39_NoLostUpdate ==
    (\A w \in Workers : apc[w] = "idle") => profileRow = Len(dayRuns)

\* ------------------------------------------- TaskPlanner.execute claims
\* the sub-tasks whose executor has been called
Invoked == {invOrder[i] : i \in DOMAIN invOrder}

\* the parts of C33 other than the context: the executors are called one at
\* a time and in sub-task order, a sub-task is FAILED exactly when its
\* executor is missing or raised, and plan.success is true iff every sub-task
\* ended COMPLETED
SequentialOrderAndStatus ==
    /\ Cardinality({k \in SubTaskIdx : stStatus[k] = "RUNNING"}) <= 1
    /\ \A i, j \in DOMAIN invOrder : i < j => invOrder[i] < invOrder[j]
    /\ \A k \in DOMAIN exPlan :
          stStatus[k] = "FAILED" <=>
             \/ k < exIdx /\ exPlan[k].agent_name \notin executors
             \/ k < exIdx /\ stResult[k].kind = "error"
    /\ exState = "done" =>
          /\ \A k \in DOMAIN exPlan : stStatus[k] \in {"COMPLETED", "FAILED"}
          /\ planSuccess = (\A k \in DOMAIN exPlan : stStatus[k] = "COMPLETED")

\* C33: on a sequential plan the executors are called one at a time and in
\* sub-task order; a sub-task called right after a COMPLETED one is given that
\* sub-task's result as context; a sub-task is FAILED exactly when its
\* executor is missing or raised; plan.success is true iff every sub-task
\* ended COMPLETED
C33_SequentialExecute ==
    /\ SequentialOrderAndStatus
    /\ \A k \in Invoked :
          (k > 1 /\ stStatus[k - 1] = "COMPLETED") =>
             stContext[k] = IF stResult[k - 1].len > 0
                            THEN stResult[k - 1] ELSE NoOutput

\* C33, amended: as C33, with the context being the first 200 characters of
\* the previous sub-task's result
C33_SequentialExecute_Amended ==
    /\ SequentialOrderAndStatus
    /\ \A k \in Invoked :
          (k > 1 /\ stStatus[k - 1] = "COMPLETED") =>
             stContext[k] = IF stResult[k - 1].len > 0
                            THEN PrevPrefix(stResult[k - 1]) ELSE NoOutput

\* three sub-tasks ran in order, the second with the first one's long result
\* cut to 200 characters, the third after the second had raised
C33_Witness ==
    /\ exState = "done"
    /\ invOrder = <<1, 2, 3>>
    /\ stResult[1] = [kind |-> "output", from |-> 1, len |-> 250]
    /\ stContext[2] = [kind |-> "output", from |-> 1, len |-> 200]
    /\ stStatus[2] = "FAILED"
    /\ stContext[3] = NoOutput
    /\ stStatus[3] = "COMPLETED"
    /\ ~planSuccess

\* C34: in sequential execution a sub-task's executor is called only when
\* every sub-task in its depends_on is COMPLETED; a sub-task whose
\* predecessor ended FAILED is not executed
C34_DependsRespected ==
    \A k \in Invoked :
       \A d \in SubTaskIdx :
          (\E i \in DOMAIN exPlan[k].depends_on : exPlan[k].depends_on[i] = StId(d)) =>
             stStatus[d] = "COMPLETED"

\* ---------------------------------------------- TaskQueue thread claims
\* C35: at every moment at most num_workers tasks are RUNNING and at most
\* num_workers worker threads are alive, after any sequence of start(),
\* stop(graceful or not) and start(); start() while running adds no worker
C35_WorkerBound ==
    /\ poolRows <= NumWorkers
    /\ Cardinality(LiveThreads) <= NumWorkers

\* ---------------------------------------------- TaskQueue field claims
\* C36: a COMPLETED task has a result and completed_at and no error, a FAILED
\* task has an error and completed_at and no result, and a task never claimed
\* has no started_at, result or error; also for a task that completes after
\* failed attempts
C36_FieldsConsistent ==
    \A t \in DOMAIN tasks :
       /\ tasks[t].status = "completed" =>
             /\ tasks[t].result # NoResult
             /\ tasks[t].completed_at # NoTime
             /\ tasks[t].error = NoResult
       /\ tasks[t].status = "failed" =>
             /\ tasks[t].error # NoResult
             /\ tasks[t].completed_at # NoTime
             /\ tasks[t].result = NoResult
       /\ (tasks[t].status = "pending" /\ invoked[t] = 0 /\ tasks[t].retry_count = 0) =>
             /\ tasks[t].started_at = NoTime
             /\ tasks[t].result = NoResult
             /\ tasks[t].error = NoResult

\* ------------------------------------------------ task_id claims
\* C37: two different run_epcc_cycle invocations for the same agent never get
\* the same task_id, so each is committed as an entry of its own
C37_DistinctTaskIds ==
    \A r1, r2 \in DOMAIN runs :
       (r1 # r2 /\ runs[r1].agent_name = runs[r2].agent_name) =>
          runs[r1].task_id # runs[r2].task_id

\* ------------------------------------------ WorkflowEngine termination
\* C38: execute terminates for every registered workflow when every agent
\* call returns, also when an on_success or on_failure target names the step
\* itself or an earlier step
C38_ExecuteTerminates == (wfState = "running") ~> (wfState = "done")

============================================================================
